---- MODULE Spec2Model ----
(***************************************************************************)
(* Chat API: message lifecycle engine (ChatService), socket hub            *)
(* (ConnectionManager), permission resolver with cache and circuit breaker *)
(* (AuthorizationService) and the service token manager.                   *)
(*                                                                         *)
(* What a handler computes between two awaits is a pure operator of the    *)
(* state and the handler's inputs; the actions apply these operators, one  *)
(* action per awaited step (a database call, a Redis command, a request to *)
(* the Authorization Service), so that other calls run in between.         *)
(***************************************************************************)
EXTENDS Integers, Sequences, FiniteSets, TLC

(***************************************************************************)
(* Bounds and input domains                                                *)
(***************************************************************************)
MaxMsgs == 1
MaxTicks == 1
MaxCalls == 2
MaxChecks == 2
MaxAdmitted == 5
MaxAcquiring == 2
MaxTokens == 3
MaxEvents == 1
MaxStuck == 1
MaxRequests == 2
MaxRuns == 2
MaxListed == 2

Orgs == {"o1", "o2"}
Convs == {"c1", "c2"}
Users == {"u1", "u2"}
Contents == {"x", "y"}
Sockets == {"s1"}
HubSockets == {"s1", "s2"}

\* Settings (app/config.py)
AUTH_CACHE_ENABLED == TRUE
AUTH_CACHE_TTL_READ == 300
AUTH_CACHE_TTL_WRITE == 60
AUTH_CACHE_TTL_ADMIN == 30
AUTH_CACHE_TTL_DENIED == 120
CIRCUIT_BREAKER_THRESHOLD == 5
CIRCUIT_BREAKER_TIMEOUT == 30
CIRCUIT_BREAKER_HALF_OPEN_MAX_CALLS == 3

\* Amounts of time that pass between two handler steps
TickSteps == {CIRCUIT_BREAKER_TIMEOUT, CIRCUIT_BREAKER_TIMEOUT + 1, 2 * CIRCUIT_BREAKER_TIMEOUT}

\* Permission names as their colon-separated segments
Perms == {<<"chat", "admin">>}
AuthOrgs == {"o1"}
AuthUsers == {"u1"}
PermKeys == [org_id : AuthOrgs, user_id : AuthUsers, permission : Perms]

\* Replies of the Authorization Service to POST /authorization/check: a 200
\* whose `allowed` field is true, false, the string "no" or null, a 403
\* with a JSON object as its body, a 403 with another body (an HTML page, a
\* JSON list), other statuses, and the request failing
ASReplies == {"200_true", "200_false", "200_str", "200_null", "403", "403_nojson", "500",
              "timeout", "connect_error"}

\* Keys of the checks that run beside invalidations; user ids are taken from
\* the token as they come
InvOrgs == {"o1", "o2"}
InvUsers == {"u1", "u?"}
InvPerms == {<<"chat", "admin">>}
InvKeys == {k \in [org_id : InvOrgs, user_id : InvUsers, permission : InvPerms] :
               k.org_id = "o1" \/ k.user_id = "u1"}
AllKeys == PermKeys \cup InvKeys

\* The custom_cache_ttl argument of a check: None (<<>>) or a number of seconds
CustomTtl == 10
CustomTtls == {<<>>, <<CustomTtl>>}

\* Slots for the check_permission calls that are between two awaits
Checks == 1..MaxChecks


\* Message ids a request may carry: every id the store can hold and one more
MsgIds == 1..(MaxMsgs + 1)

VARIABLES
    store,               \* messages collection: sequence of documents, id = index
    active_connections,  \* ConnectionManager.active_connections: conv -> set of sockets
    lastBroadcast,       \* the most recent broadcast_to_group: event and recipients
    last,                \* outcome of the most recent ChatService call
    now,                 \* wall clock, seconds
    ticks,               \* number of clock advances so far
    cacheEnabled,        \* CacheBackend.enabled (Redis configured and reachable at startup)
    failOpen,            \* settings.AUTH_FAIL_OPEN
    redis,               \* the Redis keyspace: key -> [value, expires_at]
    inflight,            \* permission key -> number of requests sent to the AS, not yet answered
    checks,              \* check_permission calls between two of their awaited steps
    purge,               \* invalidate_user_permissions between its KEYS and its DEL
    calls,               \* history: number of check_permission calls that have started
    asked,               \* history: permission key -> custom_cache_ttl of the check last sent to the AS
    lastCheck,           \* outcome of the most recent AuthorizationService.check_permission step
    consecFail,          \* history: AS failures since the last successful AS call
    decided,             \* history: per permission key, the last decision written to the cache
    probes,              \* history: AS calls admitted since the breaker last left open
    token,               \* ServiceTokenManager._token (NoToken for None)
    expires_at,          \* ServiceTokenManager._expires_at: <<>> for None, or <<time>>
    acquiring,           \* token requests sent to the AS, not yet answered
    issued,              \* history: number of tokens the AS has issued
    lastToken,           \* outcome of the most recent get_token return
    frames,              \* socket -> what the client has received, in order (events and closes)
    handler,             \* socket -> the websocket_endpoint call serving it, with its group lookup
    stuck,               \* sockets whose client has stopped reading: I/O on them never completes
    shut,                \* progress of ConnectionManager.shutdown_all
    events,              \* history: number of broadcasts and client frames handled so far
    requests             \* ChatService calls between Message.get and their return

msgVars == <<store, active_connections, lastBroadcast, last>>
authVars == <<cacheEnabled, failOpen, redis, inflight, lastCheck,
              consecFail, decided, probes, checks, purge, calls, asked>>
tokVars == <<token, expires_at, acquiring, issued, lastToken>>
hubVars == <<frames, handler, stuck, shut, events>>
docVars == <<requests>>
vars == <<msgVars, now, ticks, authVars, tokVars, hubVars, docVars>>

NoKey == [org_id |-> "none", user_id |-> "none", permission |-> <<>>]

NoCheck == [key |-> NoKey, outcome |-> "none", cached |-> FALSE, source |-> "none",
            breaker |-> FALSE, dialed |-> FALSE, seen |-> "none"]
NoDecision == [set |-> FALSE, allowed |-> FALSE, until |-> 0, stale |-> FALSE]

\* A slot without a call; data is <<>> or holds the breaker state to write
NoChecking == [pc |-> "idle", key |-> NoKey, data |-> <<>>, seen |-> "none",
               reply |-> "none", custom_cache_ttl |-> <<>>, stale |-> FALSE]

NoPurge == [pc |-> "idle", org_id |-> "none", user_id |-> "none", keys |-> {},
            returned |-> "none"]

NoToken == 0

NoReturn == [kind |-> "none", token |-> NoToken, expires_at |-> 0, at |-> 0, fresh |-> FALSE]

\* The state of every component right after construction
MsgIdle ==
    /\ store = <<>>
    /\ active_connections = [g \in {} |-> {}]
    /\ lastBroadcast = [type |-> "none", group_id |-> "none", attempted |-> {},
                        delivered |-> {}, removed |-> {}]
    /\ last = [op |-> "none", status |-> "none", step |-> 0]

AuthIdle ==
    /\ redis = [k \in {} |-> {}]
    /\ inflight = [k \in AllKeys |-> 0]
    /\ asked = [k \in AllKeys |-> <<>>]
    /\ lastCheck = NoCheck
    /\ consecFail = 0
    /\ decided = [k \in AllKeys |-> NoDecision]
    /\ probes = 0
    /\ checks = [c \in Checks |-> NoChecking]
    /\ purge = NoPurge
    /\ calls = 0

NoGroup == [org_id |-> "none", member_ids |-> {}]

\* A get_group_details call between two awaits.  pc names the command it
\* waits for: "cache" the first Redis GET, "token" POST /oauth/token,
\* "group" GET /groups/{id}, "members" GET /groups/{id}/members, "save"
\* the Redis SETEX, "stale" the Redis GET after a failed fetch.  found is
\* what the AS has answered so far.  At "done", kind is "ok" (the details,
\* with found.member_ids), "none" (None) or "raise".
NoLookup == [pc |-> "start", group_id |-> "none", expected_org_id |-> "none",
             found |-> NoGroup, kind |-> "none"]

\* A broadcast_to_group call inside asyncio.gather: the snapshot it sends
\* to (attempted), the sockets whose send has not completed yet (pending)
\* and those whose send raised (failed)
NoCast == [group_id |-> "none", type |-> "none", attempted |-> {}, pending |-> {},
           failed |-> {}]

\* A websocket_endpoint call that has not started.  status names the await
\* the call is at: "new", "lookup" (in get_group_details), "closing"
\* (websocket.close(code) after a failed check), "accept"
\* (websocket.accept() in manager.connect), "welcome" (registered, the send
\* of the "connected" event), "join" (the user_joined broadcast), "open"
\* (receive_json of the loop), "pong" (the send of the pong), "typing" (the
\* user_typing broadcast), "leave" (the user_left broadcast), "aborting"
\* (websocket.close(1011) of the outer except), or how it has ended:
\* "refused" (the close after a failed check went out), "dropped" (that
\* close raised) and "gone".  app is WebSocket.application_state, as
\* Starlette keeps it: "connecting", "connected" or "disconnected".
NoHandler == [status |-> "new", app |-> "connecting", group_id |-> "none",
              user_id |-> "none", org_id |-> "none", lookup |-> NoLookup,
              code |-> "none", cast |-> NoCast]

NoShutdown == [phase |-> "idle", task |-> [ws \in {} |-> "done"]]

HubIdle ==
    /\ frames = [ws \in HubSockets |-> <<>>]
    /\ handler = [ws \in HubSockets |-> NoHandler]
    /\ stuck = {}
    /\ shut = NoShutdown
    /\ events = 0

\* A ChatService call that has not started: no document fetched yet.
\* status is "idle", "read" (the changed copy is at message.save()),
\* "saved" (the broadcast is inside asyncio.gather), "done" or "failed"
NoRequest == [op |-> "none", status |-> "idle", message_id |-> 0, doc |-> <<>>,
              new_content |-> "none", cast |-> NoCast]

DocIdle == requests = [r \in 1..MaxRequests |-> NoRequest]

TokIdle ==
    /\ token = NoToken
    /\ expires_at = <<>>
    /\ acquiring = 0
    /\ issued = 0
    /\ lastToken = NoReturn

(***************************************************************************)
(* Socket hub (app/services/connection_manager.py)                         *)
(***************************************************************************)
Restrict(f, S) == [x \in S |-> f[x]]

\* ConnectionManager.connect: register the socket under its conversation
connect(ac, ws, group_id) ==
    IF group_id \in DOMAIN ac
    THEN [ac EXCEPT ![group_id] = @ \cup {ws}]
    ELSE [g \in DOMAIN ac \cup {group_id} |-> IF g = group_id THEN {ws} ELSE ac[g]]

\* a disconnect that keeps the entry of a conversation it emptied
disconnect_KeepEmpty(ac, ws, group_id) ==
    IF group_id \notin DOMAIN ac THEN ac
    ELSE [ac EXCEPT ![group_id] = @ \ {ws}]

\* ConnectionManager.disconnect: discard the socket, drop an emptied entry
disconnect(ac, ws, group_id) ==
    IF group_id \notin DOMAIN ac THEN ac
    ELSE IF ac[group_id] \ {ws} = {}
         THEN Restrict(ac, DOMAIN ac \ {group_id})
         ELSE [ac EXCEPT ![group_id] = @ \ {ws}]

RECURSIVE disconnectAll(_, _, _)
disconnectAll(ac, wss, group_id) ==
    IF wss = {} THEN ac
    ELSE LET ws == CHOOSE w \in wss : TRUE
         IN  disconnectAll(disconnect(ac, ws, group_id), wss \ {ws}, group_id)

\* a broadcast that drops the whole conversation when one send raises
broadcast_to_group_DropAll(ac, group_id, type, failing) ==
    IF group_id \notin DOMAIN ac
    THEN [ac |-> ac,
          rec |-> [type |-> type, group_id |-> group_id, attempted |-> {}, delivered |-> {}, removed |-> {}]]
    ELSE LET connections == ac[group_id]
             errors == IF connections \cap failing = {} THEN {} ELSE connections
         IN  [ac |-> disconnectAll(ac, errors, group_id),
              rec |-> [type |-> type, group_id |-> group_id, attempted |-> connections,
                       delivered |-> connections \ (connections \cap failing),
                       removed |-> errors]]

\* ConnectionManager.broadcast_to_group: send to a snapshot of the set in
\* parallel; `failing` is the set of sockets whose send_json raises.
\* Returns the hub map afterwards and the record of the broadcast.
broadcast_to_group(ac, group_id, type, failing) ==
    IF group_id \notin DOMAIN ac
    THEN [ac |-> ac,
          rec |-> [type |-> type, group_id |-> group_id, attempted |-> {}, delivered |-> {}, removed |-> {}]]
    ELSE LET connections == ac[group_id]
             errors == connections \cap failing
         IN  [ac |-> disconnectAll(ac, errors, group_id),
              rec |-> [type |-> type, group_id |-> group_id, attempted |-> connections,
                       delivered |-> connections \ errors, removed |-> errors]]

NoBroadcast == [type |-> "none", group_id |-> "none", attempted |-> {}, delivered |-> {}, removed |-> {}]

\* Every socket registered in some conversation
Registered(ac) == UNION {ac[g] : g \in DOMAIN ac}

(***************************************************************************)
(* The hub one await at a time.  A send or close on a socket goes through  *)
(* Starlette's WebSocket, which keeps application_state.  The state is     *)
(* tested, and for a close set to disconnected, when the send or close is  *)
(* called; the frame goes out when the call completes.  Once a close has   *)
(* been called, or the ASGI server has reported the connection as lost, a  *)
(* further send or close raises RuntimeError before anything is sent; a    *)
(* send that was already on its way still completes.                       *)
(***************************************************************************)
\* websocket.send_json / websocket.close completing on every socket of S
deliver(fr, S, frame) ==
    [ws \in DOMAIN fr |-> IF ws \in S THEN Append(fr[ws], frame) ELSE fr[ws]]

\* How the ASGI server ends a send: it takes the frame ("ok"); it raises
\* OSError, which WebSocket.send answers by marking the socket disconnected
\* and raising WebSocketDisconnect ("lost"); or the exception leaves
\* application_state as it was ("error": another exception, or a Starlette
\* that does not catch OSError)
SendOutcomes == {"ok", "lost", "error"}

\* websocket.send_json(message) on socket ws, called while the socket was
\* connected, completes with the given outcome
send_json(h, fr, ws, frame, outcome) ==
    IF outcome = "ok"
    THEN [handler |-> h, frames |-> deliver(fr, {ws}, frame), raised |-> FALSE]
    ELSE IF outcome = "lost"
    THEN [handler |-> [h EXCEPT ![ws].app = "disconnected"], frames |-> fr, raised |-> TRUE]
    ELSE [handler |-> h, frames |-> fr, raised |-> TRUE]

\* websocket.close(code) is called on socket ws: on a socket that is
\* disconnected it raises at once; otherwise application_state becomes
\* disconnected before the close frame is handed to the server
close_begin(h, ws) ==
    IF h[ws].app = "disconnected" THEN [handler |-> h, raised |-> TRUE]
    ELSE [handler |-> [h EXCEPT ![ws].app = "disconnected"], raised |-> FALSE]

\* websocket.close(code) on socket ws completes: the server has taken the
\* close frame, or it raises
close(h, fr, ws, code, raises) ==
    [handler |-> h, frames |-> IF raises THEN fr ELSE deliver(fr, {ws}, code),
     raised |-> raises]

\* broadcast_to_group up to the awaits inside asyncio.gather: without an
\* entry for the conversation it returns at once (nothing attempted),
\* otherwise it sends to the list the set holds at this moment; the send to
\* a socket that is not connected raises at once, the others are on their way
broadcast_begin(ac, h, group_id, type) ==
    LET connections == IF group_id \in DOMAIN ac THEN ac[group_id] ELSE {}
        refused == {ws \in connections : h[ws].app # "connected"}
    IN  [group_id |-> group_id, type |-> type, attempted |-> connections,
         pending |-> connections \ refused, failed |-> refused]

\* send_to_connection(websocket) of broadcast_to_group: one send of the
\* gather completes, its exception is caught and returned as the result
send_to_connection(c, h, fr, ws, outcome) ==
    LET s == send_json(h, fr, ws, c.type, outcome)
    IN  [cast |-> [c EXCEPT !.pending = @ \ {ws},
                            !.failed = IF s.raised THEN @ \cup {ws} ELSE @],
         handler |-> s.handler, frames |-> s.frames]

\* broadcast_to_group from the return of asyncio.gather on: every socket
\* whose send raised is disconnected from the conversation, whatever the
\* hub map has become in the meantime
gathered(ac, c) ==
    [ac |-> disconnectAll(ac, c.failed, c.group_id),
     rec |-> [type |-> c.type, group_id |-> c.group_id, attempted |-> c.attempted,
              delivered |-> c.attempted \ c.failed, removed |-> c.failed]]


(***************************************************************************)
(* Group lookup (app/services/group_service.py)                            *)
(***************************************************************************)
\* What the Authorization Service answers for GET /groups/{id} (+ members):
\* a 4xx/5xx or connection failure (aiohttp.ClientError), another exception
\* (time-out, malformed body), 404, or the group and its members; the
\* group comes with its organization or with none (no organization_id and
\* no org_id in the body, or null)
ASGroupReplies ==
    [kind : {"error", "fault", "notfound"}, org_id : {"none"}, member_ids : {{}}]
    \cup [kind : {"ok"}, org_id : Orgs \cup {"none"}, member_ids : SUBSET Users]

\* The answers a call of the message engine is run with: a failure, an
\* unknown group, a group without members and one with every user in it
CallReplies == {r \in ASGroupReplies : r.kind = "ok" => r.member_ids \in {{}, Users}}

\* GroupService.get_group_details on a cache miss, from the answer of the AS
\* to the check of the organization: None for an unknown group or a group
\* of another organization, the details otherwise; a failed fetch raises.
fetched_group(expected_org_id, reply) ==
    IF reply.kind \in {"error", "fault"} THEN [kind |-> "raise", member_ids |-> {}]
    ELSE IF reply.kind = "notfound" THEN [kind |-> "none", member_ids |-> {}]
    ELSE IF reply.org_id # expected_org_id THEN [kind |-> "none", member_ids |-> {}]
    ELSE [kind |-> "ok", member_ids |-> reply.member_ids]

\* The parameters of GroupService.get_group_details besides self
GroupDetailsParams == {"group_id", "expected_org_id"}

\* The keyword arguments ChatService._verify_group_access calls it with
VerifyKeywords == {"group_id", "expected_org_id", "user_token"}

\* ChatService._verify_group_access: a keyword get_group_details does not
\* declare makes the call raise TypeError before anything is looked up;
\* the ladder after the call is NotFound, Forbidden, or the group
verify_group_access(group_id, expected_org_id, user_id, reply) ==
    IF ~(VerifyKeywords \subseteq GroupDetailsParams) THEN "Error"
    ELSE LET group == fetched_group(expected_org_id, reply)
         IN  IF group.kind = "raise" THEN "Error"
             ELSE IF group.kind = "none" THEN "NotFound"
             ELSE IF user_id \notin group.member_ids THEN "Forbidden"
             ELSE "ok"

(***************************************************************************)
(* Message engine (app/services/chat_service.py)                           *)
(***************************************************************************)
\* Message document (app/models/message.py), is_deleted defaults to False
Message(org_id, group_id, sender_id, content, t) ==
    [org_id |-> org_id, group_id |-> group_id, sender_id |-> sender_id,
     content |-> content, created_at |-> t, updated_at |-> t, is_deleted |-> FALSE]

\* Message.get(message_id): the document or None
Exists(st, message_id) == message_id \in 1..Len(st)

Outcome(status, step, st, ac, rec) ==
    [status |-> status, step |-> step, store |-> st, ac |-> ac, rec |-> rec]

\* ChatService.create_message
create_message(st, ac, group_id, org_id, sender_id, content, reply, failing, t) ==
    LET access == verify_group_access(group_id, org_id, sender_id, reply)
    IN  IF access # "ok" THEN Outcome(access, 1, st, ac, NoBroadcast)
        ELSE LET st2 == Append(st, Message(org_id, group_id, sender_id, content, t))
                 b == broadcast_to_group(ac, group_id, "new_message", failing)
             IN  Outcome("ok", 0, st2, b.ac, b.rec)

\* The $match stage of the aggregation in ChatService.get_messages
Matches(st, group_id, org_id) ==
    {i \in 1..Len(st) : /\ st[i].org_id = org_id
                        /\ st[i].group_id = group_id
                        /\ st[i].is_deleted = FALSE}

\* ChatService.get_messages: the set of ids the filter selects (all pages)
get_messages(st, group_id, org_id, user_id, reply) ==
    LET access == verify_group_access(group_id, org_id, user_id, reply)
    IN  IF access # "ok" THEN [status |-> access, ids |-> {}]
        ELSE [status |-> "ok", ids |-> Matches(st, group_id, org_id)]

\* update_message without the tenant check of step 3
update_message_NoOrgCheck(st, ac, message_id, group_id, org_id, user_id, new_content, failing, t) ==
    IF ~Exists(st, message_id) THEN Outcome("Error", 1, st, ac, NoBroadcast)
    ELSE LET message == st[message_id]
         IN  IF message.group_id # group_id THEN Outcome("NotFound", 2, st, ac, NoBroadcast)
             ELSE IF message.sender_id # user_id THEN Outcome("Forbidden", 4, st, ac, NoBroadcast)
             ELSE LET st2 == [st EXCEPT ![message_id].content = new_content,
                                        ![message_id].updated_at = t]
                      b == broadcast_to_group(ac, message.group_id, "message_updated", failing)
                  IN  Outcome("ok", 0, st2, b.ac, b.rec)

\* update_message without the ownership check of step 4
update_message_NoOwnerCheck(st, ac, message_id, group_id, org_id, user_id, new_content, failing, t) ==
    IF ~Exists(st, message_id) THEN Outcome("Error", 1, st, ac, NoBroadcast)
    ELSE LET message == st[message_id]
         IN  IF message.group_id # group_id THEN Outcome("NotFound", 2, st, ac, NoBroadcast)
             ELSE IF message.org_id # org_id THEN Outcome("Forbidden", 3, st, ac, NoBroadcast)
             ELSE LET st2 == [st EXCEPT ![message_id].content = new_content,
                                        ![message_id].updated_at = t]
                      b == broadcast_to_group(ac, message.group_id, "message_updated", failing)
                  IN  Outcome("ok", 0, st2, b.ac, b.rec)

\* ChatService.update_message, run without another request in between: a
\* message id that is not stored ends in AttributeError (the finally block
\* reads message.group_id of None), then the precondition ladder, the write
\* and the broadcast
update_message(st, ac, message_id, group_id, org_id, user_id, new_content, failing, t) ==
    IF ~Exists(st, message_id) THEN Outcome("Error", 1, st, ac, NoBroadcast)
    ELSE LET message == st[message_id]
         IN  IF message.group_id # group_id THEN Outcome("NotFound", 2, st, ac, NoBroadcast)
             ELSE IF message.org_id # org_id THEN Outcome("Forbidden", 3, st, ac, NoBroadcast)
             ELSE IF message.sender_id # user_id THEN Outcome("Forbidden", 4, st, ac, NoBroadcast)
             ELSE LET st2 == [st EXCEPT ![message_id].content = new_content,
                                        ![message_id].updated_at = t]
                      b == broadcast_to_group(ac, message.group_id, "message_updated", failing)
                  IN  Outcome("ok", 0, st2, b.ac, b.rec)

\* ChatService.delete_message, run without another request in between: the
\* same ladder, ownership bypassed by is_admin
delete_message(st, ac, message_id, group_id, org_id, user_id, is_admin, failing, t) ==
    IF ~Exists(st, message_id) THEN Outcome("Error", 1, st, ac, NoBroadcast)
    ELSE LET message == st[message_id]
         IN  IF message.group_id # group_id THEN Outcome("NotFound", 2, st, ac, NoBroadcast)
             ELSE IF message.org_id # org_id THEN Outcome("Forbidden", 3, st, ac, NoBroadcast)
             ELSE IF ~is_admin /\ message.sender_id # user_id
                  THEN Outcome("Forbidden", 4, st, ac, NoBroadcast)
             ELSE LET st2 == [st EXCEPT ![message_id].is_deleted = TRUE,
                                        ![message_id].updated_at = t]
                      b == broadcast_to_group(ac, message.group_id, "message_deleted", failing)
                  IN  Outcome("ok", 0, st2, b.ac, b.rec)

(***************************************************************************)
(* The calls one await at a time.  update_message and delete_message fetch *)
(* the document with Message.get, run the ladder on it, change the copy in *)
(* memory (updated_at is the clock of that moment), write it back with     *)
(* message.save() and then broadcast, one send at a time; other requests   *)
(* run at every await.  A message id that is not stored makes Message.get  *)
(* return None: NotFoundError is raised and the finally block, which reads *)
(* message.group_id, replaces it by AttributeError.                        *)
(***************************************************************************)
Requests == 1..MaxRequests

\* Documents of the specifications that follow one conversation of one tenant
DocOrgs == {"o1"}
DocConvs == {"c1"}

Fetched(status, step, doc) == [status |-> status, step |-> step, doc |-> doc]

\* update_message up to the write: Message.get and the precondition ladder
update_read(st, message_id, group_id, org_id, user_id) ==
    IF ~Exists(st, message_id) THEN Fetched("Error", 1, <<>>)
    ELSE LET message == st[message_id]
         IN  IF message.group_id # group_id THEN Fetched("NotFound", 2, <<>>)
             ELSE IF message.org_id # org_id THEN Fetched("Forbidden", 3, <<>>)
             ELSE IF message.sender_id # user_id THEN Fetched("Forbidden", 4, <<>>)
             ELSE Fetched("ok", 0, <<message>>)

\* delete_message up to the write, handing on a copy owned by the caller
delete_read_AsCaller(st, message_id, group_id, org_id, user_id, is_admin) ==
    IF ~Exists(st, message_id) THEN Fetched("Error", 1, <<>>)
    ELSE LET message == st[message_id]
         IN  IF message.group_id # group_id THEN Fetched("NotFound", 2, <<>>)
             ELSE IF message.org_id # org_id THEN Fetched("Forbidden", 3, <<>>)
             ELSE IF ~is_admin /\ message.sender_id # user_id THEN Fetched("Forbidden", 4, <<>>)
             ELSE Fetched("ok", 0, <<[message EXCEPT !.sender_id = user_id]>>)

\* delete_message up to the write: Message.get and the precondition ladder
delete_read(st, message_id, group_id, org_id, user_id, is_admin) ==
    IF ~Exists(st, message_id) THEN Fetched("Error", 1, <<>>)
    ELSE LET message == st[message_id]
         IN  IF message.group_id # group_id THEN Fetched("NotFound", 2, <<>>)
             ELSE IF message.org_id # org_id THEN Fetched("Forbidden", 3, <<>>)
             ELSE IF ~is_admin /\ message.sender_id # user_id THEN Fetched("Forbidden", 4, <<>>)
             ELSE Fetched("ok", 0, <<message>>)

\* message.save(): Message declares neither state management nor revisions,
\* so every field of the in-memory document is written over the stored one
save(st, message_id, message) == [st EXCEPT ![message_id] = message]

\* The assignments of update_message / delete_message to the fetched copy
changed(op, message, new_content, t) ==
    IF op = "update" THEN [message EXCEPT !.content = new_content, !.updated_at = t]
    ELSE [message EXCEPT !.is_deleted = TRUE, !.updated_at = t]

\* a handler that sends the event although save() raised
write_BroadcastAnyway(st, message_id, message, storage_ok) ==
    IF storage_ok THEN [status |-> "saved", store |-> save(st, message_id, message)]
    ELSE [status |-> "saved", store |-> st]

\* `await message.save()` of the changed copy: an exception of the driver
\* leaves the collection as it was and ends the call
write(st, message_id, message, storage_ok) ==
    IF storage_ok THEN [status |-> "saved", store |-> save(st, message_id, message)]
    ELSE [status |-> "failed", store |-> st]

\* The event update_message / delete_message broadcasts after the write
EventOf(op) == IF op = "update" THEN "message_updated" ELSE "message_deleted"

\* a handler that raises when a send of its broadcast raised
cast_BroadcastFatal(ac, op, message, failing) ==
    LET b == broadcast_to_group(ac, message.group_id, EventOf(op), failing)
    IN  [status |-> IF b.rec.removed = {} THEN "ok" ELSE "Error", ac |-> b.ac, rec |-> b.rec]

\* update_message / delete_message after save(), run without another task
\* in between: the broadcast, in which the exception of every send is
\* caught, and the return of the message
cast(ac, op, message, failing) ==
    LET b == broadcast_to_group(ac, message.group_id, EventOf(op), failing)
    IN  [status |-> "ok", ac |-> b.ac, rec |-> b.rec]

Reading(op, message_id, doc, new_content) ==
    [op |-> op, status |-> "read", message_id |-> message_id, doc |-> doc,
     new_content |-> new_content, cast |-> NoCast]

Finished(q) == [q EXCEPT !.status = "done", !.doc = <<>>, !.new_content = "none",
                         !.cast = NoCast]

Failed(q) == [q EXCEPT !.status = "failed", !.doc = <<>>, !.new_content = "none",
                       !.cast = NoCast]

(***************************************************************************)
(* Actions of the message engine                                           *)
(***************************************************************************)
Apply(op, r) ==
    /\ store' = r.store
    /\ active_connections' = r.ac
    /\ lastBroadcast' = IF r.rec = NoBroadcast THEN lastBroadcast ELSE r.rec
    /\ last' = [op |-> op, status |-> r.status, step |-> r.step]

\* A call that got as far as its ladder: it raised, or it has changed its
\* copy of the document and waits for message.save().  Calls take the free
\* entries of `requests` in order.
Begun(r, op, f, message_id, new_content) ==
    /\ requests[r].status = "idle"
    /\ \A q \in Requests : q < r => requests[q].status # "idle"
    /\ requests' = [requests EXCEPT ![r] =
                       IF f.status = "ok"
                       THEN Reading(op, message_id,
                                    <<changed(op, f.doc[1], new_content, now)>>, new_content)
                       ELSE @]
    /\ UNCHANGED <<store, active_connections, lastBroadcast, now, ticks,
                   authVars, tokVars, hubVars>>

CreateMessage ==
    \E g \in Convs, o \in Orgs, u \in Users, c \in Contents,
       reply \in CallReplies, failing \in SUBSET Registered(active_connections) :
        /\ Len(store) <= MaxMsgs
        /\ Apply("create", create_message(store, active_connections, g, o, u, c, reply, failing, now))
        /\ UNCHANGED <<docVars, now, ticks, authVars, tokVars, hubVars>>

GetMessages ==
    \E g \in Convs, o \in Orgs, u \in Users, reply \in CallReplies :
        /\ last' = [op |-> "list", status |-> get_messages(store, g, o, u, reply).status, step |-> 0]
        /\ UNCHANGED <<docVars, store, active_connections, lastBroadcast, now, ticks, authVars, tokVars, hubVars>>

\* update_message reaches message.save(), or raises on the way
UpdateBegin(r) ==
    \E m \in MsgIds, g \in Convs, o \in Orgs, u \in Users, c \in Contents :
        LET f == update_read(store, m, g, o, u)
        IN  /\ Begun(r, "update", f, m, c)
            /\ last' = [op |-> "update", status |-> IF f.status = "ok" THEN "pending" ELSE f.status,
                        step |-> f.step]

\* delete_message reaches message.save(), or raises on the way
DeleteBegin(r) ==
    \E m \in MsgIds, g \in Convs, o \in Orgs, u \in Users, a \in BOOLEAN :
        LET f == delete_read(store, m, g, o, u, a)
        IN  /\ Begun(r, "delete", f, m, "none")
            /\ last' = [op |-> "delete", status |-> IF f.status = "ok" THEN "pending" ELSE f.status,
                        step |-> f.step]

\* message.save() of update_message or delete_message completes or raises;
\* after it the call is in broadcast_to_group, which has taken its snapshot
\* and waits for its sends, or has returned because nobody listens
SaveDoc(r) ==
    \E storage_ok \in BOOLEAN :
        LET q == requests[r]
            w == write(store, q.message_id, q.doc[1], storage_ok)
            c == broadcast_begin(active_connections, handler, q.doc[1].group_id, EventOf(q.op))
        IN  /\ q.status = "read" /\ q.op \in {"update", "delete"}
            /\ store' = w.store
            /\ requests' = [requests EXCEPT ![r] =
                               IF w.status # "saved" THEN Failed(q)
                               ELSE IF c.attempted = {} THEN Finished(q)
                               ELSE [q EXCEPT !.status = "saved", !.cast = c]]
            /\ last' = [op |-> q.op, step |-> 0,
                        status |-> IF w.status # "saved" THEN "Error"
                                   ELSE IF c.attempted = {} THEN "ok"
                                   ELSE "saved"]
            /\ lastBroadcast' = IF w.status = "saved" /\ c.attempted = {}
                                THEN gathered(active_connections, c).rec
                                ELSE lastBroadcast
            /\ UNCHANGED <<active_connections, now, ticks, authVars, tokVars, hubVars>>

\* One send of the broadcast of a request completes, with one of `outcomes`
SendDoc(r, outcomes) ==
    \E ws \in requests[r].cast.pending, outcome \in outcomes :
        LET s == send_to_connection(requests[r].cast, handler, frames, ws, outcome)
        IN  /\ requests[r].status = "saved"
            /\ ws \notin stuck
            /\ requests' = [requests EXCEPT ![r].cast = s.cast]
            /\ handler' = s.handler
            /\ frames' = s.frames
            /\ UNCHANGED <<msgVars, now, ticks, authVars, tokVars, stuck, shut, events>>

\* asyncio.gather of the broadcast has returned: the sockets whose send
\* raised are disconnected, and the call returns its message
CastDoc(r) ==
    LET q == requests[r]
        b == gathered(active_connections, q.cast)
    IN  /\ q.status = "saved"
        /\ q.cast.pending = {}
        /\ active_connections' = b.ac
        /\ lastBroadcast' = b.rec
        /\ last' = [op |-> q.op, status |-> "ok", step |-> 0]
        /\ requests' = [requests EXCEPT ![r] = Finished(q)]
        /\ UNCHANGED <<store, now, ticks, authVars, tokVars, hubVars>>

\* The collection outlives the process: documents written before this
\* start (create_message of this version stores none) are in it, deleted or not
BootMessages(orgs, convs, senders, contents) ==
    [org_id : orgs, group_id : convs, sender_id : senders, content : contents,
     created_at : {0}, updated_at : {0}, is_deleted : BOOLEAN]

BootStores(orgs, convs, senders, contents, n) ==
    UNION {[1..k -> BootMessages(orgs, convs, senders, contents)] : k \in 0..n}

InitMsg ==
    /\ store \in BootStores(Orgs, Convs, {"u1"}, {"x"}, MaxMsgs)
    /\ active_connections = [g \in {} |-> {}]
    /\ lastBroadcast = NoBroadcast
    /\ last = [op |-> "none", status |-> "none", step |-> 0]
    /\ AuthIdle
    /\ TokIdle
    /\ DocIdle
    /\ HubIdle
    /\ now = 0 /\ ticks = 0
    /\ cacheEnabled = FALSE /\ failOpen = FALSE

NextMsg ==
    \/ CreateMessage
    \/ GetMessages
    \/ \E r \in Requests : UpdateBegin(r)
    \/ \E r \in Requests : DeleteBegin(r)
    \/ \E r \in Requests : SaveDoc(r)

SpecMsg == InitMsg /\ [][NextMsg]_vars

(***************************************************************************)
(* Message engine: tenant isolation, conversation check, ownership         *)
(***************************************************************************)
StoredIds == 1..Len(store)

\* C1: for every stored message and every other organization, an update or a
\* delete that carries the message's own conversation and the other
\* organization is Forbidden for every user and every is_admin and leaves
\* the store as it was, and no list of the other organization contains it.
C1_CrossTenantIsolation ==
    \A m \in StoredIds : \A o \in Orgs \ {store[m].org_id} :
        /\ \A u \in Users, c \in Contents, failing \in SUBSET Sockets :
              LET r == update_message(store, active_connections, m, store[m].group_id,
                                      o, u, c, failing, now)
              IN  r.status = "Forbidden" /\ r.store = store
        /\ \A u \in Users, a \in BOOLEAN, failing \in SUBSET Sockets :
              LET r == delete_message(store, active_connections, m, store[m].group_id,
                                      o, u, a, failing, now)
              IN  r.status = "Forbidden" /\ r.store = store
        /\ \A g \in Convs, u \in Users, reply \in ASGroupReplies :
              m \notin get_messages(store, g, o, u, reply).ids

\* a cross-tenant update was refused at the tenant check
C1_Witness ==
    /\ Len(store) >= 1
    /\ last.op = "update" /\ last.status = "Forbidden" /\ last.step = 3

\* C2: for every stored message, an update or a delete that carries another
\* conversation is NotFound for every organization, user and is_admin, which
\* is the outcome for a message id that is not stored, and the store is as
\* it was.
C2_ConversationMismatchNotFound ==
    \A m \in StoredIds : \A g \in Convs \ {store[m].group_id} :
        \A o \in Orgs, u \in Users, failing \in SUBSET Sockets :
            /\ \A c \in Contents :
                  LET r == update_message(store, active_connections, m, g, o, u, c, failing, now)
                      absent == update_message(store, active_connections, Len(store) + 1,
                                               g, o, u, c, failing, now)
                  IN  /\ r.status = "NotFound" /\ r.store = store
                      /\ absent.status = r.status /\ absent.store = r.store
                      /\ absent.rec = r.rec
            /\ \A a \in BOOLEAN :
                  LET r == delete_message(store, active_connections, m, g, o, u, a, failing, now)
                      absent == delete_message(store, active_connections, Len(store) + 1,
                                               g, o, u, a, failing, now)
                  IN  /\ r.status = "NotFound" /\ r.store = store
                      /\ absent.status = r.status /\ absent.store = r.store
                      /\ absent.rec = r.rec

\* C3 as stated: every update by a user other than the sender is Forbidden,
\* and every delete by a user other than the sender without is_admin is
\* Forbidden, whatever conversation and organization the request carries.
C3_NonOwnerAlwaysForbidden ==
    \A m \in StoredIds : \A u \in Users \ {store[m].sender_id} :
        \A g \in Convs, o \in Orgs, failing \in SUBSET Sockets :
            /\ \A c \in Contents :
                  LET r == update_message(store, active_connections, m, g, o, u, c, failing, now)
                  IN  r.status = "Forbidden" /\ r.store = store
            /\ LET r == delete_message(store, active_connections, m, g, o, u, FALSE, failing, now)
               IN  r.status = "Forbidden" /\ r.store = store

\* C3 amended: an update that carries the message's own conversation and
\* comes from a user other than the sender is Forbidden, and so is such a
\* delete unless is_admin is true; the store is as it was.  (With another
\* conversation the answer is NotFound.)
C3_NonOwnerForbidden ==
    \A m \in StoredIds : \A u \in Users \ {store[m].sender_id} :
        \A o \in Orgs, failing \in SUBSET Sockets :
            /\ \A c \in Contents :
                  LET r == update_message(store, active_connections, m, store[m].group_id,
                                          o, u, c, failing, now)
                  IN  r.status = "Forbidden" /\ r.store = store
            /\ LET r == delete_message(store, active_connections, m, store[m].group_id,
                                       o, u, FALSE, failing, now)
               IN  r.status = "Forbidden" /\ r.store = store

\* an update in the right conversation and organization was refused at the
\* ownership check
C3_Witness ==
    /\ Len(store) >= 1
    /\ last.op = "update" /\ last.status = "Forbidden" /\ last.step = 4

(***************************************************************************)
(* Cache backend (app/core/cache.py).  `up` tells whether the Redis        *)
(* command of the call succeeds; a command that raises is caught by the    *)
(* backend.                                                                *)
(***************************************************************************)
CacheMiss == [hit |-> FALSE, value |-> "none"]

Put(r, key, v) == [k \in DOMAIN r \cup {key} |-> IF k = key THEN v ELSE r[k]]

\* CacheBackend.get: None when the cache is disabled, when the command
\* raises, or when the key is absent or expired
cache_get(r, enabled, key, t, up) ==
    IF ~enabled THEN CacheMiss
    ELSE IF ~up THEN CacheMiss
    ELSE IF key \in DOMAIN r /\ t < r[key].expires_at
         THEN [hit |-> TRUE, value |-> r[key].value]
         ELSE CacheMiss

\* CacheBackend.set: SETEX key ttl value; False when the cache is disabled
\* or the command raises
cache_set(r, enabled, key, value, ttl, t, up) ==
    IF ~enabled THEN [ok |-> FALSE, redis |-> r]
    ELSE IF ~up THEN [ok |-> FALSE, redis |-> r]
    ELSE [ok |-> TRUE, redis |-> Put(r, key, [value |-> value, expires_at |-> t + ttl])]

\* CacheBackend.delete: DEL key; False when the cache is disabled or the
\* command raises
cache_delete(r, enabled, key, up) ==
    IF ~enabled THEN [ok |-> FALSE, redis |-> r]
    ELSE IF ~up THEN [ok |-> FALSE, redis |-> r]
    ELSE [ok |-> TRUE, redis |-> Restrict(r, DOMAIN r \ {key})]

\* The characters of a key segment, for the ids in which a character is
\* glob syntax to Redis; every other segment is one symbol
Letters(seg) ==
    IF seg = "u1" THEN <<"u", "1">>
    ELSE IF seg = "u2" THEN <<"u", "2">>
    ELSE IF seg = "u?" THEN <<"u", "?">>
    ELSE <<seg>>

\* Redis glob match inside one segment: ? stands for any one character
RECURSIVE GlobSegment(_, _)
GlobSegment(p, s) ==
    IF p = <<>> THEN s = <<>>
    ELSE /\ s # <<>>
         /\ Head(p) = "?" \/ Head(p) = Head(s)
         /\ GlobSegment(Tail(p), Tail(s))

\* Redis glob match of KEYS over colon-separated segments: a segment * of
\* the pattern stands for any text, colons included
RECURSIVE GlobMatch(_, _)
GlobMatch(pattern, key) ==
    IF pattern = <<>> THEN key = <<>>
    ELSE IF Head(pattern) = "*"
    THEN \E n \in 1..Len(key) : GlobMatch(Tail(pattern), SubSeq(key, n + 1, Len(key)))
    ELSE /\ key # <<>>
         /\ GlobSegment(Letters(Head(pattern)), Letters(Head(key)))
         /\ GlobMatch(Tail(pattern), Tail(key))

\* CacheBackend.invalidate_pattern up to the return of `await
\* self.redis.keys(pattern)`: `done` when the call returns here
invalidate_pattern_keys(r, enabled, pattern, t, up) ==
    IF ~enabled THEN [done |-> TRUE, ok |-> FALSE, keys |-> {}]
    ELSE IF ~up THEN [done |-> TRUE, ok |-> FALSE, keys |-> {}]
    ELSE LET keys == {k \in DOMAIN r : t < r[k].expires_at /\ GlobMatch(pattern, k)}
         IN  [done |-> keys = {}, ok |-> TRUE, keys |-> keys]

\* CacheBackend.invalidate_pattern, `await self.redis.delete(*keys)`
invalidate_pattern_delete(r, keys, up) ==
    IF ~up THEN [ok |-> FALSE, redis |-> r]
    ELSE [ok |-> TRUE, redis |-> Restrict(r, DOMAIN r \ keys)]

\* Redis drops a key when its time to live has run out
Live(r, t) == Restrict(r, {k \in DOMAIN r : t < r[k].expires_at})

(***************************************************************************)
(* Permission cache (AuthorizationCache, app/core/authorization.py)        *)
(***************************************************************************)
\* AuthorizationCache._build_key: auth:permission:{org_id}:{user_id}:{permission}
build_key(k) == <<"auth", "permission", k.org_id, k.user_id>> \o k.permission

\* a TTL rule that looks at the last segment of the name only
determine_ttl_LastSegment(permission, allowed) ==
    IF ~allowed THEN AUTH_CACHE_TTL_DENIED
    ELSE IF Len(permission) > 1
         THEN LET action == <<permission[Len(permission)]>>
              IN  IF action \in {<<"delete">>, <<"manage_members">>, <<"admin">>}
                  THEN AUTH_CACHE_TTL_ADMIN
                  ELSE IF action \in {<<"create">>, <<"update">>, <<"send_message">>}
                  THEN AUTH_CACHE_TTL_WRITE
                  ELSE IF action = <<"read">> THEN AUTH_CACHE_TTL_READ
                  ELSE AUTH_CACHE_TTL_WRITE
         ELSE AUTH_CACHE_TTL_WRITE

\* AuthorizationCache._determine_ttl: split(":", 1) keeps everything after the
\* first colon as the action
determine_ttl(permission, allowed) ==
    IF ~allowed THEN AUTH_CACHE_TTL_DENIED
    ELSE IF Len(permission) > 1
         THEN LET action == Tail(permission)
              IN  IF action \in {<<"delete">>, <<"manage_members">>, <<"admin">>}
                  THEN AUTH_CACHE_TTL_ADMIN
                  ELSE IF action \in {<<"create">>, <<"update">>, <<"send_message">>}
                  THEN AUTH_CACHE_TTL_WRITE
                  ELSE IF action = <<"read">> THEN AUTH_CACHE_TTL_READ
                  ELSE AUTH_CACHE_TTL_WRITE
         ELSE AUTH_CACHE_TTL_WRITE

\* AuthorizationCache.get: the value is stored as "1" (allowed) or "0" (denied)
auth_cache_get(r, enabled, authEnabled, k, t, up) ==
    IF ~authEnabled THEN [hit |-> FALSE, allowed |-> FALSE]
    ELSE LET v == cache_get(r, enabled, build_key(k), t, up)
         IN  IF ~v.hit THEN [hit |-> FALSE, allowed |-> FALSE]
             ELSE [hit |-> TRUE, allowed |-> (v.value = "1")]

\* AuthorizationCache.set; `allowed` is the truth value of what the client
\* returned
auth_cache_set(r, enabled, authEnabled, k, allowed, t, up) ==
    IF ~authEnabled THEN [ok |-> FALSE, redis |-> r]
    ELSE cache_set(r, enabled, build_key(k), IF allowed THEN "1" ELSE "0",
                   determine_ttl(k.permission, allowed), t, up)

\* AuthorizationCache.invalidate_user_cache: the pattern
\* auth:permission:{org_id}:{user_id}:* with both ids put in as they come,
\* and the KEYS command of invalidate_pattern
invalidate_user_cache(r, enabled, org_id, user_id, t, up) ==
    invalidate_pattern_keys(r, enabled, <<"auth", "permission", org_id, user_id, "*">>, t, up)

(***************************************************************************)
(* Circuit breaker (CircuitBreaker, app/core/authorization.py)             *)
(***************************************************************************)
REDIS_KEY == <<"auth", "circuit_breaker">>

\* last_failure_time is None (<<>>) or a time (<<t>>)
DefaultState == [state |-> "closed", failure_count |-> 0,
                 last_failure_time |-> <<>>, half_open_attempts |-> 0]

\* CircuitBreaker._get_state
get_state(r, enabled, t, up) ==
    LET data == cache_get(r, enabled, REDIS_KEY, t, up)
    IN  IF ~data.hit THEN DefaultState ELSE data.value

\* CircuitBreaker._set_state
set_state(r, enabled, state_data, t, up) ==
    cache_set(r, enabled, REDIS_KEY, state_data, CIRCUIT_BREAKER_TIMEOUT * 2, t, up).redis

\* should_attempt admitting the caller as soon as the time-out has elapsed
should_attempt_AtTimeout(state_data, t) ==
    LET current_state == state_data.state
    IN  IF current_state = "closed"
        THEN [attempt |-> TRUE, state |-> current_state, write |-> <<>>]
        ELSE IF current_state = "open"
        THEN IF /\ state_data.last_failure_time # <<>>
                /\ t - state_data.last_failure_time[1] >= CIRCUIT_BREAKER_TIMEOUT
             THEN [attempt |-> TRUE, state |-> "half_open",
                   write |-> <<[state_data EXCEPT !.state = "half_open",
                                                  !.half_open_attempts = 0]>>]
             ELSE [attempt |-> FALSE, state |-> current_state, write |-> <<>>]
        ELSE IF state_data.half_open_attempts < CIRCUIT_BREAKER_HALF_OPEN_MAX_CALLS
             THEN [attempt |-> TRUE, state |-> current_state,
                   write |-> <<[state_data EXCEPT !.half_open_attempts = @ + 1]>>]
             ELSE [attempt |-> FALSE, state |-> current_state, write |-> <<>>]

\* CircuitBreaker.should_attempt after `await self._get_state()` has
\* returned state_data at time t: the decision, and in `write` the state it
\* hands to _set_state (<<>> when it writes nothing)
should_attempt(state_data, t) ==
    LET current_state == state_data.state
    IN  IF current_state = "closed"
        THEN [attempt |-> TRUE, state |-> current_state, write |-> <<>>]
        ELSE IF current_state = "open"
        THEN IF /\ state_data.last_failure_time # <<>>
                /\ t - state_data.last_failure_time[1] > CIRCUIT_BREAKER_TIMEOUT
             THEN [attempt |-> TRUE, state |-> "half_open",
                   write |-> <<[state_data EXCEPT !.state = "half_open",
                                                  !.half_open_attempts = 0]>>]
             ELSE [attempt |-> FALSE, state |-> current_state, write |-> <<>>]
        ELSE IF state_data.half_open_attempts < CIRCUIT_BREAKER_HALF_OPEN_MAX_CALLS
             THEN [attempt |-> TRUE, state |-> current_state,
                   write |-> <<[state_data EXCEPT !.half_open_attempts = @ + 1]>>]
             ELSE [attempt |-> FALSE, state |-> current_state, write |-> <<>>]

\* record_success closing the breaker without clearing the failure count
record_success_KeepCount(state_data) ==
    IF state_data.state = "half_open"
    THEN <<[state_data EXCEPT !.state = "closed", !.half_open_attempts = 0]>>
    ELSE IF state_data.state = "closed" /\ state_data.failure_count > 0
    THEN <<[state_data EXCEPT !.failure_count = 0]>>
    ELSE <<>>

\* CircuitBreaker.record_success after _get_state has returned state_data:
\* the state it hands to _set_state, <<>> when it writes nothing
record_success(state_data) ==
    IF state_data.state = "half_open"
    THEN <<[state_data EXCEPT !.state = "closed", !.failure_count = 0,
                              !.half_open_attempts = 0]>>
    ELSE IF state_data.state = "closed" /\ state_data.failure_count > 0
    THEN <<[state_data EXCEPT !.failure_count = 0]>>
    ELSE <<>>

\* CircuitBreaker.record_failure after _get_state has returned state_data at
\* time t: the state it hands to _set_state
record_failure(state_data, t) ==
    LET counted == [state_data EXCEPT !.failure_count = @ + 1,
                                      !.last_failure_time = <<t>>]
    IN  IF state_data.state = "closed" /\ counted.failure_count >= CIRCUIT_BREAKER_THRESHOLD
        THEN <<[counted EXCEPT !.state = "open"]>>
        ELSE IF state_data.state = "half_open"
        THEN <<[counted EXCEPT !.state = "open", !.half_open_attempts = 0]>>
        ELSE <<counted>>

(***************************************************************************)
(* AS client and resolver (AuthAPIClient, AuthorizationService)            *)
(***************************************************************************)
\* a client that takes every HTTP reply for an answer: 500 is a denial
api_result_AnyStatus(reply) ==
    IF reply \in {"200_true", "200_str"}
    THEN [recorded |-> "success", answered |-> TRUE, allowed |-> TRUE]
    ELSE IF reply \in {"200_false", "403", "500"}
    THEN [recorded |-> "success", answered |-> TRUE, allowed |-> FALSE]
    ELSE IF reply = "200_null"
    THEN [recorded |-> "success", answered |-> FALSE, allowed |-> FALSE]
    ELSE [recorded |-> "failure", answered |-> FALSE, allowed |-> FALSE]

\* AuthAPIClient.check_permission after the reply: what it tells the
\* breaker, whether what it returns is not None, and the truth value of
\* what it returns.  A 200 returns the `allowed` field as it came (true,
\* false, a string, null); a 403 returns False after result.get has read
\* the reason from its body, and with a body that is not a JSON object the
\* exception is a failure like every other reply; a failure returns None.
api_result(reply) ==
    IF reply \in {"200_true", "200_str"}
    THEN [recorded |-> "success", answered |-> TRUE, allowed |-> TRUE]
    ELSE IF reply \in {"200_false", "403"}
    THEN [recorded |-> "success", answered |-> TRUE, allowed |-> FALSE]
    ELSE IF reply = "200_null"
    THEN [recorded |-> "success", answered |-> FALSE, allowed |-> FALSE]
    ELSE [recorded |-> "failure", answered |-> FALSE, allowed |-> FALSE]

Result(k, outcome, cached, source, breaker, dialed, seen) ==
    [key |-> k, outcome |-> outcome, cached |-> cached, source |-> source,
     breaker |-> breaker, dialed |-> dialed, seen |-> seen]

\* a fail policy that answers Denied when the AS is unavailable
fail_policy_Denied(k, fail_open, dialed, seen) ==
    IF fail_open
    THEN Result(k, "Allowed", FALSE, "fail_open_policy", TRUE, dialed, seen)
    ELSE Result(k, "Denied", FALSE, "fail_closed", TRUE, dialed, seen)

\* AuthorizationService.check_permission, step 4: the fail policy.
\* `seen` is the breaker state the call read, `dialed` whether a request
\* went to the AS.
fail_policy(k, fail_open, dialed, seen) ==
    IF fail_open
    THEN Result(k, "Allowed", FALSE, "fail_open_policy", TRUE, dialed, seen)
    ELSE Result(k, "Unavailable", FALSE, "fail_closed", TRUE, dialed, seen)

\* a lookup that never answers from the cache
lookup_NoCache(r, enabled, authEnabled, k, t, up) ==
    [hit |-> FALSE, result |-> Result(k, "pending", FALSE, "none", FALSE, FALSE, "none")]

\* AuthorizationService.check_permission, step 1: `await self.cache.get`
\* and the return of a cached decision
lookup(r, enabled, authEnabled, k, t, up) ==
    LET c == auth_cache_get(r, enabled, authEnabled, k, t, up)
    IN  IF c.hit
        THEN [hit |-> TRUE,
              result |-> Result(k, IF c.allowed THEN "Allowed" ELSE "Denied", TRUE, "cache",
                                FALSE, FALSE, "none")]
        ELSE [hit |-> FALSE,
              result |-> Result(k, "pending", FALSE, "none", FALSE, FALSE, "none")]

(***************************************************************************)
(* Actions of the permission resolver.  A check is one step per awaited    *)
(* Redis command or HTTP call; checks[c] holds a call between two of its   *)
(* steps, inflight[k] counts the requests that are at the AS.              *)
(***************************************************************************)
RECURSIVE Sum(_, _)
Sum(f, S) == IF S = {} THEN 0
             ELSE LET x == CHOOSE y \in S : TRUE IN f[x] + Sum(f, S \ {x})

\* The breaker state a caller would read now
Breaker == get_state(redis, cacheEnabled, now, TRUE)

\* history: calls admitted in the current half-open episode
ProbesAfter(r, t, n) ==
    IF get_state(r, cacheEnabled, t, TRUE).state = "half_open" THEN n ELSE 0

\* a call takes the lowest free slot
FreeSlot(c) ==
    /\ checks[c].pc = "idle"
    /\ \A q \in Checks : q < c => checks[q].pc # "idle"

\* the request goes to the AS
Sent(c, r) ==
    LET k == checks[c].key
    IN  /\ inflight' = [inflight EXCEPT ![k] = @ + 1]
        /\ asked' = [asked EXCEPT ![k] = checks[c].custom_cache_ttl]
        /\ checks' = [checks EXCEPT ![c] = NoChecking]
        /\ lastCheck' = Result(k, "pending", FALSE, "auth_api", TRUE, TRUE, r.seen)
        /\ probes' = ProbesAfter(r.redis, now,
                                 IF Breaker.state = "half_open" THEN probes + 1 ELSE 1)

\* the call returns
Returned(c, result) ==
    /\ checks' = [checks EXCEPT ![c] = NoChecking]
    /\ lastCheck' = result

\* check_permission, the cache lookup
CheckLookup(c, k, custom_cache_ttl, up) ==
    LET l == lookup(redis, cacheEnabled, AUTH_CACHE_ENABLED, k, now, up)
    IN  /\ FreeSlot(c)
        /\ lastCheck' = l.result
        /\ calls' = calls + 1
        /\ checks' = IF l.hit THEN checks
                     ELSE [checks EXCEPT ![c] = [NoChecking EXCEPT !.pc = "attempt", !.key = k,
                                                    !.custom_cache_ttl = custom_cache_ttl]]
        /\ UNCHANGED <<docVars, msgVars, tokVars, hubVars, now, ticks, cacheEnabled, failOpen,
                       redis, inflight, consecFail, decided, probes, purge, asked>>

\* should_attempt, `await self._get_state()` and the decision; a closed
\* breaker lets the request go out at once
AttemptRead(c, up) ==
    LET q == checks[c]
        state_data == get_state(redis, cacheEnabled, now, up)
        d == should_attempt(state_data, now)
    IN  /\ q.pc = "attempt"
        /\ IF ~d.attempt
           THEN /\ Returned(c, fail_policy(q.key, failOpen, FALSE, state_data.state))
                /\ UNCHANGED <<inflight, probes, asked>>
           ELSE IF d.write = <<>>
           THEN Sent(c, [seen |-> state_data.state, redis |-> redis])
           ELSE /\ checks' = [checks EXCEPT ![c] = [q EXCEPT !.pc = "write", !.data = d.write,
                                                         !.seen = state_data.state]]
                /\ UNCHANGED <<inflight, probes, lastCheck, asked>>
        /\ UNCHANGED <<docVars, msgVars, tokVars, hubVars, now, ticks, cacheEnabled, failOpen, calls,
                       redis, consecFail, decided, purge>>

\* should_attempt, `await self._set_state(state_data)`, and the request
AttemptWrite(c, up) ==
    LET q == checks[c]
        r == set_state(redis, cacheEnabled, q.data[1], now, up)
    IN  /\ q.pc = "write"
        /\ redis' = r
        /\ Sent(c, [seen |-> q.seen, redis |-> r])
        /\ UNCHANGED <<docVars, msgVars, tokVars, hubVars, now, ticks, cacheEnabled, failOpen, calls,
                       consecFail, decided, purge>>

\* where a call goes once the breaker has been told: to the cache write
\* when the client returned a decision, to the fail policy otherwise
Recorded(c, q) ==
    IF api_result(q.reply).answered
    THEN /\ checks' = [checks EXCEPT ![c] = [q EXCEPT !.pc = "store", !.data = <<>>]]
         /\ UNCHANGED lastCheck
    ELSE Returned(c, fail_policy(q.key, failOpen, TRUE, q.seen))

\* the reply of the AS has arrived: the request has left the AS, and the
\* call is in record_success or record_failure at `await self._get_state()`
Replied(c, k, reply) ==
    /\ FreeSlot(c)
    /\ inflight[k] > 0
    /\ inflight' = [inflight EXCEPT ![k] = @ - 1]
    /\ checks' = [checks EXCEPT ![c] = [NoChecking EXCEPT !.pc = "record", !.key = k,
                                                           !.reply = reply]]
    /\ UNCHANGED <<docVars, msgVars, tokVars, hubVars, now, ticks, cacheEnabled, failOpen, calls,
                   redis, lastCheck, consecFail, decided, probes, purge, asked>>

\* record_success or record_failure, `await self._get_state()`
RecordRead(c, up) ==
    LET res == api_result(checks[c].reply)
        state_data == get_state(redis, cacheEnabled, now, up)
        w == IF res.recorded = "success" THEN record_success(state_data)
             ELSE record_failure(state_data, now)
        q == [checks[c] EXCEPT !.pc = "recwrite", !.data = w, !.seen = state_data.state]
    IN  /\ checks[c].pc = "record"
        /\ consecFail' = IF res.recorded = "success" THEN 0 ELSE consecFail + 1
        /\ IF w # <<>>
           THEN checks' = [checks EXCEPT ![c] = q] /\ UNCHANGED lastCheck
           ELSE Recorded(c, q)
        /\ UNCHANGED <<docVars, msgVars, tokVars, hubVars, now, ticks, cacheEnabled, failOpen, calls,
                       redis, inflight, decided, probes, purge, asked>>

\* record_success or record_failure, `await self._set_state(state_data)`
RecordWrite(c, up) ==
    LET q == checks[c]
    IN  /\ q.pc = "recwrite"
        /\ redis' = set_state(redis, cacheEnabled, q.data[1], now, up)
        /\ probes' = ProbesAfter(redis', now, probes)
        /\ Recorded(c, q)
        /\ UNCHANGED <<docVars, msgVars, tokVars, hubVars, now, ticks, cacheEnabled, failOpen, calls,
                       inflight, consecFail, decided, purge, asked>>

\* check_permission, `await self.cache.set(...)` and the return of the
\* decision
CacheStore(c, up) ==
    LET q == checks[c]
        allowed == api_result(q.reply).allowed
        w == auth_cache_set(redis, cacheEnabled, AUTH_CACHE_ENABLED, q.key, allowed, now, up)
    IN  /\ q.pc = "store"
        /\ redis' = w.redis
        /\ Returned(c, Result(q.key, IF allowed THEN "Allowed" ELSE "Denied", FALSE,
                              "auth_api", TRUE, TRUE, q.seen))
        /\ decided' = IF w.ok
                      THEN [decided EXCEPT ![q.key] =
                              [set |-> TRUE, allowed |-> allowed,
                               until |-> now + determine_ttl(q.key.permission, allowed),
                               stale |-> q.stale]]
                      ELSE decided
        /\ UNCHANGED <<docVars, msgVars, tokVars, hubVars, now, ticks, cacheEnabled, failOpen, calls,
                       inflight, consecFail, probes, purge, asked>>

\* history: the invalidation of (org_id, user_id) has returned True; every
\* decision of the pair that is in the cache now, or that a call of the
\* pair is holding, was issued before it
Outdated(r, org_id, user_id) ==
    /\ decided' = [k \in DOMAIN decided |->
                      IF k.org_id = org_id /\ k.user_id = user_id
                      THEN [decided[k] EXCEPT !.stale = build_key(k) \in DOMAIN r]
                      ELSE decided[k]]
    /\ checks' = [c \in Checks |->
                     IF /\ checks[c].pc \in {"record", "recwrite", "store"}
                        /\ checks[c].key.org_id = org_id /\ checks[c].key.user_id = user_id
                     THEN [checks[c] EXCEPT !.stale = TRUE]
                     ELSE checks[c]]

\* invalidate_user_permissions, up to the return of the KEYS command
InvalidateKeys(org_id, user_id, up) ==
    LET i == invalidate_user_cache(redis, cacheEnabled, org_id, user_id, now, up)
    IN  /\ purge.pc = "idle"
        /\ purge' = [pc |-> IF i.done THEN "idle" ELSE "delete",
                     org_id |-> org_id, user_id |-> user_id, keys |-> i.keys,
                     returned |-> IF ~i.done THEN "none" ELSE IF i.ok THEN "True" ELSE "False"]
        /\ IF i.done /\ i.ok THEN Outdated(redis, org_id, user_id)
           ELSE UNCHANGED <<decided, checks>>
        /\ UNCHANGED <<docVars, msgVars, tokVars, hubVars, now, ticks, cacheEnabled, failOpen, calls,
                       redis, inflight, lastCheck, consecFail, probes, asked>>

\* invalidate_user_permissions, the DEL command and the return
InvalidateDelete(up) ==
    LET d == invalidate_pattern_delete(redis, purge.keys, up)
    IN  /\ purge.pc = "delete"
        /\ redis' = d.redis
        /\ purge' = [purge EXCEPT !.pc = "idle", !.keys = {},
                                  !.returned = IF d.ok THEN "True" ELSE "False"]
        /\ IF d.ok THEN Outdated(d.redis, purge.org_id, purge.user_id)
           ELSE UNCHANGED <<decided, checks>>
        /\ probes' = ProbesAfter(d.redis, now, probes)
        /\ UNCHANGED <<docVars, msgVars, tokVars, hubVars, now, ticks, cacheEnabled, failOpen, calls,
                       inflight, lastCheck, consecFail, asked>>

\* Time passes; Redis drops the keys that expired
Tick ==
    \E d \in TickSteps :
        /\ ticks < MaxTicks
        /\ now' = now + d
        /\ ticks' = ticks + 1
        /\ redis' = Live(redis, now + d)
        /\ probes' = ProbesAfter(Live(redis, now + d), now + d, probes)
        /\ UNCHANGED <<docVars, msgVars, tokVars, hubVars, cacheEnabled, failOpen, calls,
                       inflight, lastCheck, consecFail, decided, checks, purge, asked>>

\* a check_permission call arrives
CheckBegin(c, up) ==
    \E k \in PermKeys : calls < MaxCalls /\ CheckLookup(c, k, <<>>, up)

\* the AS answers a request
CheckFinish(c) ==
    \E k \in PermKeys, reply \in ASReplies : Replied(c, k, reply)

\* The breaker state after n AS calls in a row have failed at time 0
RECURSIVE AfterFailures(_)
AfterFailures(n) ==
    IF n = 0 THEN DefaultState ELSE record_failure(AfterFailures(n - 1), 0)[1]

\* Numbers of AS calls that have failed in a row when the resolver is first
\* looked at: none, one short of the threshold, the threshold
BootFailures == {0, CIRCUIT_BREAKER_THRESHOLD - 1, CIRCUIT_BREAKER_THRESHOLD}

\* The resolver at time 0: n calls in a row have just failed
InitAuth ==
    /\ MsgIdle
    /\ TokIdle
    /\ DocIdle
    /\ HubIdle
    /\ now = 0 /\ ticks = 0
    /\ cacheEnabled \in BOOLEAN
    /\ failOpen \in BOOLEAN
    /\ consecFail \in BootFailures
    /\ redis = IF consecFail = 0 THEN [k \in {} |-> {}]
               ELSE set_state([k \in {} |-> {}], cacheEnabled, AfterFailures(consecFail), 0, TRUE)
    /\ decided = [k \in AllKeys |-> NoDecision]
    /\ inflight = [k \in AllKeys |-> 0]
    /\ asked = [k \in AllKeys |-> <<>>]
    /\ lastCheck = NoCheck
    /\ probes = 0
    /\ checks = [c \in Checks |-> NoChecking]
    /\ purge = NoPurge
    /\ calls = 0

NextAuth ==
    \/ \E c \in Checks, up \in BOOLEAN : CheckBegin(c, up)
    \/ \E c \in Checks, up \in BOOLEAN : AttemptRead(c, up)
    \/ \E c \in Checks, up \in BOOLEAN : AttemptWrite(c, up)
    \/ \E c \in Checks : CheckFinish(c)
    \/ \E c \in Checks, up \in BOOLEAN : RecordRead(c, up)
    \/ \E c \in Checks, up \in BOOLEAN : RecordWrite(c, up)
    \/ \E c \in Checks, up \in BOOLEAN : CacheStore(c, up)
    \/ Tick

SpecAuth == InitAuth /\ [][NextAuth]_vars

(***************************************************************************)
(* Claims about the permission resolver and the circuit breaker            *)
(***************************************************************************)
\* The breaker state a caller reads after the step
BreakerAfter == get_state(redis', cacheEnabled, now', TRUE)

CacheOutcome(k) == IF decided[k].allowed THEN "Allowed" ELSE "Denied"

\* the step lets the request of call c go to the AS, at once or after the
\* write of the breaker state
Admitted(c) ==
    \/ inflight'[checks[c].key] = inflight[checks[c].key] + 1
    \/ checks'[c].pc = "write"

\* C4 as stated: once a decision is cached with TTL t, every check of the
\* same key within t returns that outcome with cached = true and reaches
\* neither the breaker nor the AS, and the first check after expiry sends a
\* request to the AS again.
C4_CachedWithinTtl ==
    [][\A c \in Checks, k \in PermKeys :
          /\ (CheckLookup(c, k, <<>>, TRUE) /\ decided[k].set /\ now < decided[k].until) =>
                 /\ lastCheck'.cached
                 /\ lastCheck'.outcome = CacheOutcome(k)
                 /\ checks' = checks
          /\ (/\ AttemptRead(c, TRUE) /\ checks[c].key = k
              /\ decided[k].set /\ now >= decided[k].until) => Admitted(c)]_vars

\* C4, amended: while the cached decision is still stored (not invalidated)
\* and its TTL has not run out, every check of the same key whose cache read
\* succeeds returns the cached outcome with cached = true and touches
\* neither the breaker state nor the AS, even while the breaker is open; a
\* check after expiry is a cache miss that goes to the breaker, and to the AS
\* when the breaker it reads is closed.
C4_CachedWhileStored ==
    [][\A c \in Checks, k \in PermKeys :
          /\ (CheckLookup(c, k, <<>>, TRUE) /\ decided[k].set) =>
                 /\ (now < decided[k].until /\ build_key(k) \in DOMAIN redis) =>
                        /\ lastCheck'.cached
                        /\ lastCheck'.source = "cache"
                        /\ lastCheck'.outcome = CacheOutcome(k)
                        /\ ~lastCheck'.breaker /\ ~lastCheck'.dialed
                        /\ redis' = redis /\ inflight' = inflight /\ checks' = checks
                 /\ now >= decided[k].until =>
                        /\ ~lastCheck'.cached
                        /\ checks'[c].pc = "attempt" /\ checks'[c].key = k
          /\ (/\ AttemptRead(c, TRUE) /\ checks[c].key = k
              /\ Breaker.state = "closed") =>
                 /\ lastCheck'.dialed /\ lastCheck'.breaker
                 /\ inflight'[k] = inflight[k] + 1]_vars

\* a cached decision served while the breaker is open
C4_Witness ==
    /\ lastCheck.cached /\ lastCheck.source = "cache"
    /\ Breaker.state = "open"

\* C5 as stated: from closed, the failure that makes T consecutive failures
\* opens the breaker, fewer do not, and a success in closed resets the
\* failure count to zero.
C5_OpensAtThreshold ==
    [][\A c \in Checks :
          (RecordWrite(c, TRUE) /\ Breaker.state = "closed") =>
              IF api_result(checks[c].reply).recorded = "success"
              THEN BreakerAfter.failure_count = 0
              ELSE (BreakerAfter.state = "open") <=>
                   (consecFail >= CIRCUIT_BREAKER_THRESHOLD)]_vars

\* what a breaker refusal of call c looks like
Refused(c) ==
    /\ ~lastCheck'.dialed
    /\ inflight' = inflight
    /\ checks'[c].pc = "idle"
    /\ redis' = redis

\* C6 as stated: while open, a cache-miss check before the cool-down has
\* elapsed is refused without a request; once now - last_failure >=
\* cool_down the caller is admitted and the breaker becomes half-open.
C6_AdmittedAtCoolDown ==
    [][\A c \in Checks :
          /\ (AttemptRead(c, TRUE) /\ Breaker.state = "open") =>
                 LET elapsed == now - Breaker.last_failure_time[1]
                 IN  /\ elapsed < CIRCUIT_BREAKER_TIMEOUT => Refused(c)
                     /\ elapsed >= CIRCUIT_BREAKER_TIMEOUT =>
                            /\ checks'[c].pc = "write"
                            /\ checks'[c].data[1].state = "half_open"
          /\ (AttemptWrite(c, TRUE) /\ checks[c].seen = "open") =>
                 /\ BreakerAfter.state = "half_open"
                 /\ lastCheck'.dialed
                 /\ inflight'[checks[c].key] = inflight[checks[c].key] + 1]_vars

\* C6, amended: while the breaker is open, a cache-miss check with
\* now - last_failure <= cool_down is refused without a request to the AS
\* and leaves the breaker open; with now - last_failure > cool_down the
\* caller is admitted and its write makes the breaker half-open.
C6_AdmittedAfterCoolDown ==
    [][\A c \in Checks :
          /\ (AttemptRead(c, TRUE) /\ Breaker.state = "open") =>
                 LET elapsed == now - Breaker.last_failure_time[1]
                 IN  /\ elapsed <= CIRCUIT_BREAKER_TIMEOUT =>
                            Refused(c) /\ BreakerAfter.state = "open"
                     /\ elapsed > CIRCUIT_BREAKER_TIMEOUT =>
                            /\ checks'[c].pc = "write"
                            /\ checks'[c].data[1].state = "half_open"
                            /\ checks'[c].data[1].half_open_attempts = 0
          /\ (AttemptWrite(c, TRUE) /\ checks[c].seen = "open") =>
                 /\ BreakerAfter.state = "half_open"
                 /\ lastCheck'.dialed
                 /\ inflight'[checks[c].key] = inflight[checks[c].key] + 1]_vars

\* the caller that found the breaker open after the cool-down and was admitted
C6_Witness ==
    /\ lastCheck.seen = "open" /\ lastCheck.dialed
    /\ lastCheck.outcome = "pending"
    /\ Breaker.state = "half_open"

\* C8: a successful AS call that finds the breaker half-open closes it with
\* failure count 0 and probe count 0; a failed AS call that finds it
\* half-open opens it and restarts the cool-down at that failure; a failed
\* call that finds it closed opens it exactly when it is the T-th failure
\* counted, so T failures are needed after the count is back at 0.
C8_HalfOpenOutcome ==
    [][\A c \in Checks :
          /\ (RecordRead(c, TRUE) /\ api_result(checks[c].reply).recorded = "failure") =>
                LET w == checks'[c].data[1]
                IN  /\ checks'[c].pc = "recwrite"
                    /\ Breaker.state = "half_open" =>
                           w.state = "open" /\ w.last_failure_time = <<now>>
                    /\ Breaker.state = "closed" =>
                           ((w.state = "open") <=>
                            (Breaker.failure_count + 1 >= CIRCUIT_BREAKER_THRESHOLD))
          /\ RecordWrite(c, TRUE) =>
                /\ redis' = set_state(redis, cacheEnabled, checks[c].data[1], now, TRUE)
                /\ cacheEnabled => BreakerAfter = checks[c].data[1]
                /\ (/\ checks[c].seen = "half_open"
                    /\ api_result(checks[c].reply).recorded = "success") =>
                       /\ BreakerAfter.state = "closed"
                       /\ BreakerAfter.failure_count = 0
                       /\ BreakerAfter.half_open_attempts = 0
                /\ (checks[c].seen = "closed" /\ BreakerAfter.state = "open") =>
                       /\ api_result(checks[c].reply).recorded = "failure"
                       /\ BreakerAfter.failure_count >= CIRCUIT_BREAKER_THRESHOLD]_vars

\* a probe answered by the AS has closed the half-open breaker
C8_Witness ==
    /\ lastCheck.seen = "half_open" /\ lastCheck.dialed
    /\ lastCheck.outcome \in {"Allowed", "Denied"}
    /\ Breaker.state = "closed"

\* C9: a cache-miss check that the breaker refuses, or whose AS call fails,
\* is decided by the fail policy alone: Unavailable under fail-closed,
\* Allowed with source fail-open and cached = false under fail-open.
C9_FailPolicyOnly ==
    [][\A c \in Checks, up \in BOOLEAN :
          (\/ /\ AttemptRead(c, up)
              /\ checks'[c].pc = "idle" /\ inflight' = inflight
           \/ /\ RecordWrite(c, up)
              /\ api_result(checks[c].reply).recorded = "failure") =>
              /\ checks'[c].pc = "idle"
              /\ IF failOpen
                 THEN /\ lastCheck'.outcome = "Allowed"
                      /\ lastCheck'.source = "fail_open_policy"
                      /\ ~lastCheck'.cached
                 ELSE lastCheck'.outcome = "Unavailable"]_vars

\* a check refused by the open breaker under the fail-closed policy
C9_Witness ==
    /\ ~failOpen
    /\ lastCheck.outcome = "Unavailable"
    /\ lastCheck.seen = "open" /\ ~lastCheck.dialed

(***************************************************************************)
(* Service identity (ServiceTokenManager, app/core/service_auth.py)        *)
(***************************************************************************)
\* get_token: timedelta(minutes=5), in seconds
TOKEN_BUFFER == 300

\* _acquire_token: data.get("expires_in", 3600)
DEFAULT_EXPIRES_IN == 3600

\* expires_in values the AS may put in a token response
ExpiresInValues == {60, TOKEN_BUFFER, TOKEN_BUFFER + 1, 3600}

\* Answers of POST /oauth/token.  A 2xx answer carries an access_token (a
\* token, or null_token: null or the empty string) and an expires_in (a
\* number, absent, or not a number: null or a string, kinds no_number and
\* null_no_number); the request can fail with aiohttp.ClientError
\* (client_error: connection refused, 4xx/5xx, a body that is not JSON),
\* with asyncio.TimeoutError (timeout), or answer 2xx without access_token
\* (no_access_token)
TokenReplies ==
    {[kind |-> k, expires_in |-> <<e>>] : k \in {"token", "null_token"}, e \in ExpiresInValues}
        \cup {[kind |-> k, expires_in |-> <<>>] :
                 k \in {"token", "no_number", "client_error", "timeout", "no_access_token",
                        "null_token", "null_no_number"}}

\* get_token, the reuse test: a token is held and expires later than now + 5 min
token_reusable(tok, exp, t) ==
    tok # NoToken /\ exp # <<>> /\ exp[1] > t + TOKEN_BUFFER

\* The manager as the code sees it: _token, _expires_at and the history
Manager == [token |-> token, expires_at |-> expires_at, issued |-> issued,
            lastToken |-> lastToken]

\* _acquire_token from the answer of the AS on, followed by the return of
\* get_token.  The token is stored before the expiry is computed: with an
\* expires_in that is not a number timedelta raises TypeError and the new
\* token stays with the old expiry.  An access_token that is null or empty
\* is stored like a token, with the expiry its expires_in gives, and
\* get_token returns it; the reuse test of the next get_token finds no token.  `raises` is "none",
\* "ClientError" or "Error" (an exception that is not an aiohttp.ClientError).
acquire_token(tk, reply, t) ==
    LET failed == [tk EXCEPT !.lastToken = [NoReturn EXCEPT !.kind = "error", !.at = t]]
        id == tk.issued + 1
    IN  IF reply.kind = "client_error" THEN [raises |-> "ClientError", tk |-> failed]
        ELSE IF reply.kind \in {"timeout", "no_access_token"}
        THEN [raises |-> "Error", tk |-> failed]
        ELSE IF reply.kind = "no_number"
        THEN [raises |-> "Error",
              tk |-> [failed EXCEPT !.token = id, !.issued = id]]
        ELSE IF reply.kind = "null_no_number"
        THEN [raises |-> "Error", tk |-> [failed EXCEPT !.token = NoToken]]
        ELSE LET expires_in == IF reply.expires_in = <<>> THEN DEFAULT_EXPIRES_IN
                               ELSE reply.expires_in[1]
             IN  IF reply.kind = "null_token"
                 THEN [raises |-> "none",
                       tk |-> [token |-> NoToken, expires_at |-> <<t + expires_in>>,
                               issued |-> tk.issued,
                               lastToken |-> [kind |-> "empty", token |-> NoToken,
                                              expires_at |-> t + expires_in,
                                              at |-> t, fresh |-> TRUE]]]
                 ELSE
                 [raises |-> "none",
                  tk |-> [token |-> id, expires_at |-> <<t + expires_in>>, issued |-> id,
                          lastToken |-> [kind |-> "token", token |-> id,
                                         expires_at |-> t + expires_in,
                                         at |-> t, fresh |-> TRUE]]]

\* get_token returning the token it holds
token_reused(tk, t) ==
    [tk EXCEPT !.lastToken = [kind |-> "token", token |-> tk.token,
                              expires_at |-> tk.expires_at[1], at |-> t, fresh |-> FALSE]]

\* get_token up to its return or its request to the AS
GetTokenBegin ==
    IF token_reusable(token, expires_at, now)
    THEN /\ lastToken' = token_reused(Manager, now).lastToken
         /\ UNCHANGED <<docVars, msgVars, hubVars, authVars, now, ticks, token, expires_at, acquiring, issued>>
    ELSE /\ acquiring < MaxAcquiring
         /\ acquiring' = acquiring + 1
         /\ UNCHANGED <<docVars, msgVars, hubVars, authVars, now, ticks, token, expires_at, issued, lastToken>>

\* get_token from the answer of the AS on: _acquire_token stores the token,
\* get_token returns self._token; an error propagates to the caller
AcquireFinish ==
    \E reply \in TokenReplies :
        LET a == acquire_token(Manager, reply, now)
        IN  /\ acquiring > 0
            /\ acquiring' = acquiring - 1
            /\ a.tk.issued <= MaxTokens
            /\ token' = a.tk.token
            /\ expires_at' = a.tk.expires_at
            /\ issued' = a.tk.issued
            /\ lastToken' = a.tk.lastToken
            /\ UNCHANGED <<docVars, msgVars, hubVars, authVars, now, ticks>>

\* ServiceTokenManager.invalidate
InvalidateToken ==
    /\ token' = NoToken
    /\ expires_at' = <<>>
    /\ UNCHANGED <<docVars, msgVars, hubVars, authVars, now, ticks, acquiring, issued, lastToken>>

InitTok ==
    /\ MsgIdle
    /\ AuthIdle
    /\ TokIdle
    /\ DocIdle
    /\ HubIdle
    /\ now = 0 /\ ticks = 0
    /\ cacheEnabled = FALSE
    /\ failOpen = FALSE

NextTok ==
    \/ GetTokenBegin
    \/ AcquireFinish
    \/ InvalidateToken
    \/ Tick

SpecTok == InitTok /\ [][NextTok]_vars

\* C10 as stated: every token get_token returns, cached or just acquired,
\* expires more than 5 minutes after the moment of the return.
C10_ReturnedTokenOutlivesBuffer ==
    lastToken.kind = "token" => lastToken.expires_at - lastToken.at > TOKEN_BUFFER

\* C11 as stated: at no time are two token acquisitions in flight at the AS;
\* concurrent callers that find no reusable token share one acquisition.
C11_SingleFlight == acquiring <= 1

(***************************************************************************)
(* Live delivery: frames on the sockets, the socket route                  *)
(* (app/routes/websocket.py) and shutdown_all                              *)
(***************************************************************************)
\* websocket.close codes (fastapi.status)
WS_1001_GOING_AWAY == "close_1001"
WS_1008_POLICY_VIOLATION == "close_1008"
WS_1011_INTERNAL_ERROR == "close_1011"

\* The client going away, as the route sees it (WebSocketDisconnect)
ClientDisconnect == "websocket.disconnect"

\* The close frames the server sends
CloseFrames == {WS_1001_GOING_AWAY, WS_1008_POLICY_VIOLATION, WS_1011_INTERNAL_ERROR}

\* Sockets on which the server has sent a close: a later send or close on
\* them raises (Starlette: no send once a close message has been sent).
\* Whether a send raises after the client has gone away is up to the ASGI
\* server; it is part of the `failing` sets of the sends.  The operators
\* that take a `failing` set run a call of the hub without another task in
\* between; a send that fails has lost its connection.
Closed(fr) == {ws \in DOMAIN fr : \E i \in 1..Len(fr[ws]) : fr[ws][i] \in CloseFrames}

\* Sockets whose client has gone away
ClientLeft(fr) == {ws \in DOMAIN fr : \E i \in 1..Len(fr[ws]) : fr[ws][i] = ClientDisconnect}

\* ConnectionManager.send_personal_message: an exception of send_json is
\* logged and swallowed; `returns` is FALSE when the send never completes
send_personal_message(fr, stk, ws, frame, failing) ==
    IF ws \in stk THEN [frames |-> fr, returns |-> FALSE]
    ELSE IF ws \in failing \cup Closed(fr) THEN [frames |-> fr, returns |-> TRUE]
    ELSE [frames |-> deliver(fr, {ws}, frame), returns |-> TRUE]

\* ConnectionManager.broadcast_to_group with the frames it puts on the
\* sockets: asyncio.gather returns only when every send has completed, and
\* the failing sockets are removed after that
hub_broadcast(ac, fr, stk, group_id, type, failing) ==
    IF group_id \notin DOMAIN ac
    THEN [ac |-> ac, frames |-> fr, returns |-> TRUE,
          rec |-> broadcast_to_group(ac, group_id, type, {}).rec]
    ELSE LET connections == ac[group_id]
             hanging == connections \cap stk
             raising == (connections \ stk) \cap (failing \cup Closed(fr))
             delivered == (connections \ raising) \ hanging
             b == broadcast_to_group(ac, group_id, type, raising)
         IN  IF hanging = {}
             THEN [ac |-> b.ac, frames |-> deliver(fr, delivered, type),
                   returns |-> TRUE, rec |-> b.rec]
             ELSE [ac |-> ac, frames |-> deliver(fr, delivered, type),
                   returns |-> FALSE,
                   rec |-> [b.rec EXCEPT !.delivered = delivered, !.removed = {}]]

\* ConnectionManager.get_group_connection_count
get_group_connection_count(ac, group_id) ==
    IF group_id \in DOMAIN ac THEN Cardinality(ac[group_id]) ELSE 0

(***************************************************************************)
(* Group lookup with its cache and the service token                       *)
(* (GroupService.get_group_details, ServiceTokenManager.get_token)         *)
(***************************************************************************)
\* GroupService.cache_ttl_details
CACHE_TTL_DETAILS == 300

\* f"org:{expected_org_id}:group:{group_id}:details"
group_cache_key(expected_org_id, group_id) ==
    <<"org", expected_org_id, "group", group_id, "details">>

\* What the command a lookup waits for answers: whether the Redis command
\* succeeded, the answer to the token request, the answer to a GET
NoInput == [up |-> TRUE, token |-> [kind |-> "token", expires_in |-> <<>>],
            group |-> [kind |-> "notfound", org_id |-> "none", member_ids |-> {}]]

Returns(call, kind, member_ids) ==
    [call EXCEPT !.pc = "done", !.kind = kind,
                 !.found = [NoGroup EXCEPT !.member_ids = member_ids]]

\* _fetch_from_auth_api up to its first await: get_token returns the token
\* it holds, and the GET of the group goes out, or it sends a token request
fetch_from_auth_api(call, r, tk, t) ==
    IF token_reusable(tk.token, tk.expires_at, t)
    THEN [call |-> [call EXCEPT !.pc = "group"], redis |-> r, tk |-> token_reused(tk, t)]
    ELSE [call |-> [call EXCEPT !.pc = "token"], redis |-> r, tk |-> tk]

\* get_group_details, except aiohttp.ClientError: the cache is read once
\* more; without a cache _get_from_cache returns None and the error is raised
fetch_failed(call, r, enabled, tk) ==
    IF enabled
    THEN [call |-> [call EXCEPT !.pc = "stale", !.found = NoGroup], redis |-> r, tk |-> tk]
    ELSE [call |-> Returns(call, "raise", {}), redis |-> r, tk |-> tk]

\* GroupService.get_group_details, from the answer `in` of the command the
\* call waits for to its next await or its return.  A cache hit returns
\* the cached details; a miss gets the service token and asks the AS for
\* the group and its members; details of the expected organization are
\* cached for CACHE_TTL_DETAILS; an aiohttp.ClientError (of the token
\* request or of a GET) leads to the second cache read, any other
\* exception is raised at once.
get_group_details(call, r, enabled, tk, in, t) ==
    LET cache_key == group_cache_key(call.expected_org_id, call.group_id)
        Out(c, r2, tk2) == [call |-> c, redis |-> r2, tk |-> tk2]
    IN  IF call.pc = "start"
        THEN IF enabled THEN Out([call EXCEPT !.pc = "cache"], r, tk)
             ELSE fetch_from_auth_api(call, r, tk, t)
        ELSE IF call.pc = "cache"
        THEN LET cached == cache_get(r, enabled, cache_key, t, in.up)
             IN  IF cached.hit THEN Out(Returns(call, "ok", cached.value.member_ids), r, tk)
                 ELSE fetch_from_auth_api(call, r, tk, t)
        ELSE IF call.pc = "token"
        THEN LET a == acquire_token(tk, in.token, t)
             IN  IF a.raises = "none" THEN Out([call EXCEPT !.pc = "group"], r, a.tk)
                 ELSE IF a.raises = "ClientError" THEN fetch_failed(call, r, enabled, a.tk)
                 ELSE Out(Returns(call, "raise", {}), r, a.tk)
        ELSE IF call.pc = "group"
        THEN IF in.group.kind = "error" THEN fetch_failed(call, r, enabled, tk)
             ELSE IF in.group.kind = "ok"
             THEN Out([call EXCEPT !.pc = "members", !.found.org_id = in.group.org_id], r, tk)
             ELSE Out(Returns(call, fetched_group(call.expected_org_id, in.group).kind, {}),
                      r, tk)
        ELSE IF call.pc = "members"
        THEN LET group == fetched_group(call.expected_org_id,
                                        [in.group EXCEPT !.org_id = call.found.org_id])
             IN  IF in.group.kind = "error" THEN fetch_failed(call, r, enabled, tk)
                 ELSE IF group.kind # "ok" THEN Out(Returns(call, group.kind, {}), r, tk)
                 ELSE IF enabled
                 THEN Out([call EXCEPT !.pc = "save",
                                       !.found.member_ids = group.member_ids], r, tk)
                 ELSE Out(Returns(call, "ok", group.member_ids), r, tk)
        ELSE IF call.pc = "save"
        THEN Out(Returns(call, "ok", call.found.member_ids),
                 cache_set(r, enabled, cache_key,
                           [id |-> call.group_id, org_id |-> call.found.org_id,
                            member_ids |-> call.found.member_ids],
                           CACHE_TTL_DETAILS, t, in.up).redis,
                 tk)
        ELSE LET stale == cache_get(r, enabled, cache_key, t, in.up)
             IN  IF stale.hit THEN Out(Returns(call, "ok", stale.value.member_ids), r, tk)
                 ELSE Out(Returns(call, "raise", {}), r, tk)

\* GroupService.invalidate_group_cache: DEL of the key of the group
invalidate_group_cache(r, enabled, group_id, org_id, up) ==
    cache_delete(r, enabled, group_cache_key(org_id, group_id), up).redis

\* Bearer tokens a client may put in the query string: the signature, the
\* exp claim, the type claim, sub, org_id and the scope claim
GoodTokens ==
    [sig : {TRUE}, exp : {"future"}, type : {"access"}, sub : {"u1"},
     org_id : {"o1", "none"}, scopes : {{}, {"chat:read"}, {"chat:write"}}]

FullToken == [sig |-> TRUE, exp |-> "future", type |-> "access", sub |-> "u1",
              org_id |-> "o1", scopes |-> {"chat:read"}]

WsTokens ==
    GoodTokens \cup
    {[FullToken EXCEPT !.sig = FALSE], [FullToken EXCEPT !.exp = "past"],
     [FullToken EXCEPT !.exp = "absent"], [FullToken EXCEPT !.type = "refresh"],
     [FullToken EXCEPT !.sub = "none"]}

\* verify_websocket_oauth_token: jwt.decode checks the signature and an exp
\* claim that is present; a type other than access raises JWTError;
\* OAuthToken.from_jwt_payload reads payload["sub"] and payload["exp"]
verify_websocket_oauth_token(tok) ==
    IF ~tok.sig THEN "JWTError"
    ELSE IF tok.exp = "past" THEN "JWTError"
    ELSE IF tok.type # "access" THEN "JWTError"
    ELSE IF tok.sub = "none" \/ tok.exp = "absent" THEN "KeyError"
    ELSE "ok"

\* Answers of the AS to the GETs of a group lookup of an upgrade: a failed
\* fetch, an unknown group, and groups of either organization or of none,
\* with or without the user
HubGroupReplies ==
    {r \in ASGroupReplies : r.kind = "ok" => r.member_ids \in {{}, {"u1"}}}

\* Answers of POST /oauth/token to the token request of a group lookup: a
\* token with or without expires_in, or one of the failures
HubTokenReplies == {reply \in TokenReplies : reply.expires_in \in {<<>>, <<60>>}}

\* The answers the command a lookup waits for can get, out of the token
\* answers T and the group answers G
LookupInputs(call, T, G) ==
    IF call.pc = "token" THEN {[NoInput EXCEPT !.token = x] : x \in T}
    ELSE IF call.pc = "group"
    THEN {[NoInput EXCEPT !.group = [x EXCEPT !.member_ids = {}]] : x \in G}
    ELSE IF call.pc = "members"
    THEN {[NoInput EXCEPT !.group = x] :
              x \in {y \in G : \/ y.kind \in {"error", "fault"}
                               \/ y.kind = "ok" /\ y.org_id = call.found.org_id}}
    ELSE {[NoInput EXCEPT !.up = u] : u \in IF cacheEnabled THEN BOOLEAN ELSE {TRUE}}

\* websocket_endpoint, steps 1 and 2: the close code for a token that does
\* not validate or lacks chat:read, "ok" otherwise
upgrade_code(tok) ==
    IF verify_websocket_oauth_token(tok) = "JWTError" THEN WS_1008_POLICY_VIOLATION
    ELSE IF verify_websocket_oauth_token(tok) # "ok" THEN WS_1011_INTERNAL_ERROR
    ELSE IF "chat:read" \notin tok.scopes THEN WS_1008_POLICY_VIOLATION
    ELSE "ok"

\* websocket_endpoint, step 3 after get_group_details: the close code for
\* an exception, for None and for a user who is not a member, "ok" otherwise
group_code(call, user_id) ==
    IF call.kind = "raise" THEN WS_1011_INTERNAL_ERROR
    ELSE IF call.kind = "none" \/ user_id \notin call.found.member_ids
    THEN WS_1008_POLICY_VIOLATION
    ELSE "ok"

\* websocket_endpoint, except WebSocketDisconnect: unregister the socket and
\* tell the others
on_disconnect(ac, fr, stk, ws, group_id, failing) ==
    hub_broadcast(disconnect(ac, ws, group_id), fr, stk, group_id, "user_left", failing)

\* One client frame handled by the receive loop of websocket_endpoint, up
\* to the next receive_json: ping is answered with pong, typing is
\* broadcast, anything else is logged.  A socket whose send has failed is
\* marked disconnected, so the next receive_json raises, close(1011) of the
\* outer except raises as well, and the call ends without
\* manager.disconnect.  A frame that is not a JSON object raises, which
\* closes the socket with 1011 when the close goes through, and ends the call.
on_receive(ac, fr, stk, ws, group_id, data, failing) ==
    LET lost == failing \cup Closed(fr)
    IN  IF data = "ping"
        THEN LET w == send_personal_message(fr, stk, ws, "pong", failing)
             IN  [ac |-> ac, frames |-> w.frames,
                  status |-> IF ~w.returns THEN "hung"
                             ELSE IF ws \in lost THEN "gone" ELSE "open"]
        ELSE IF data = "typing"
        THEN LET b == hub_broadcast(ac, fr, stk, group_id, "user_typing", failing)
                 sent == IF group_id \in DOMAIN ac THEN ac[group_id] ELSE {}
             IN  [ac |-> b.ac, frames |-> b.frames,
                  status |-> IF ~b.returns THEN "hung"
                             ELSE IF ws \in Closed(fr) \cup (sent \cap lost) THEN "gone"
                             ELSE "open"]
        ELSE IF data = "malformed"
        THEN [ac |-> ac,
              status |-> IF ws \in stk \ Closed(fr) THEN "hung" ELSE "gone",
              frames |-> IF ws \in lost \cup stk THEN fr
                         ELSE deliver(fr, {ws}, WS_1011_INTERNAL_ERROR)]
        ELSE [ac |-> ac, frames |-> fr,
              status |-> IF ws \in Closed(fr) THEN "gone" ELSE "open"]

ClientFrames == {"ping", "typing", "other", "malformed"}

\* a shutdown that closes the connections without the server_shutdown event
shutdown_begin_NoNotice(ac, h) ==
    IF Registered(ac) = {}
    THEN [phase |-> "done", task |-> [ws \in {} |-> "done"]]
    ELSE [phase |-> "running",
          task |-> [ws \in Registered(ac) |->
                       IF h[ws].app = "connected" THEN "close" ELSE "failed"]]

\* ConnectionManager.shutdown_all up to the awaits inside asyncio.gather:
\* every connection of every conversation gets a close_connection task,
\* whose send of server_shutdown is on its way, or has raised at once on a
\* socket that is not connected, which ends the task
shutdown_begin(ac, h) ==
    IF Registered(ac) = {}
    THEN [phase |-> "done", task |-> [ws \in {} |-> "done"]]
    ELSE [phase |-> "running",
          task |-> [ws \in Registered(ac) |->
                       IF h[ws].app = "connected" THEN "send" ELSE "failed"]]

(***************************************************************************)
(* Actions of the socket route and the hub, one per await                  *)
(***************************************************************************)
\* websocket_endpoint comes back to receive_json: on a socket that is not
\* connected it raises at once, the outer except tries close(1011), which
\* raises at once as well and is passed over, and the call returns without
\* manager.disconnect
resume(hw) ==
    [hw EXCEPT !.status = IF hw.app = "connected" THEN "open" ELSE "gone",
               !.cast = NoCast]

\* websocket_endpoint, except Exception: close(1011) inside try/except is
\* called; on a socket that is disconnected it raises at once and the call
\* returns
abort(hw) ==
    IF hw.app = "disconnected" THEN [hw EXCEPT !.status = "gone", !.cast = NoCast]
    ELSE [hw EXCEPT !.status = "aborting", !.app = "disconnected",
                    !.code = WS_1011_INTERNAL_ERROR, !.cast = NoCast]

\* get_group_details has come to its next await or has returned to
\* websocket_endpoint, which goes on to close the socket or to accept it
Looked(ws, h, l) ==
    LET code == group_code(l.call, h.user_id)
    IN  /\ redis' = l.redis
        /\ token' = l.tk.token
        /\ expires_at' = l.tk.expires_at
        /\ issued' = l.tk.issued
        /\ lastToken' = l.tk.lastToken
        /\ issued' <= MaxTokens
        /\ acquiring' = acquiring + (IF l.call.pc = "token" THEN 1 ELSE 0)
                                  - (IF h.lookup.pc = "token" THEN 1 ELSE 0)
        /\ handler' = [handler EXCEPT ![ws] =
                          IF l.call.pc # "done"
                          THEN [h EXCEPT !.status = "lookup", !.lookup = l.call]
                          ELSE IF code = "ok"
                          THEN [h EXCEPT !.status = "accept", !.lookup = NoLookup]
                          ELSE [NoHandler EXCEPT !.status = "closing", !.code = code,
                                                 !.app = "disconnected"]]

\* websocket_endpoint is called with a token of toks: the token and its
\* scope are checked; the call waits for the close of a refused socket, or
\* get_group_details runs to its first await
WsUpgrade(toks) ==
    \E ws \in HubSockets, g \in Convs, tok \in toks :
        LET h == [NoHandler EXCEPT !.group_id = g, !.user_id = tok.sub,
                                   !.org_id = tok.org_id,
                                   !.lookup = [NoLookup EXCEPT !.group_id = g,
                                                               !.expected_org_id = tok.org_id]]
        IN  /\ handler[ws].status = "new"
            /\ IF upgrade_code(tok) # "ok"
               THEN /\ handler' = [handler EXCEPT ![ws] =
                                      [NoHandler EXCEPT !.status = "closing",
                                                        !.app = "disconnected",
                                                        !.code = upgrade_code(tok)]]
                    /\ UNCHANGED <<redis, tokVars>>
               ELSE Looked(ws, h, get_group_details(h.lookup, redis, cacheEnabled, Manager,
                                                    NoInput, now))
            /\ UNCHANGED <<docVars, msgVars, now, ticks, cacheEnabled, failOpen, inflight,
                           lastCheck, consecFail, decided, probes, checks, purge, calls, asked,
                           frames, stuck, shut, events>>

\* The command a group lookup waits for is answered
WsLookup(T, G) ==
    \E ws \in HubSockets :
        /\ handler[ws].status = "lookup"
        /\ \E in \in LookupInputs(handler[ws].lookup, T, G) :
              Looked(ws, handler[ws],
                     get_group_details(handler[ws].lookup, redis, cacheEnabled, Manager,
                                       in, now))
        /\ UNCHANGED <<docVars, msgVars, now, ticks, cacheEnabled, failOpen, inflight,
                       lastCheck, consecFail, decided, probes, checks, purge, calls, asked,
                       frames, stuck, shut, events>>

\* websocket.close(code) after a failed check completes or raises.  The
\* exception of a close that raised reaches the outer except (for a close
\* of step 3 through its own except, whose close(1011) raises at once);
\* close(1011) there raises at once and is passed over: no frame goes out
WsClose ==
    \E ws \in HubSockets, raises \in BOOLEAN :
        LET c == close(handler, frames, ws, handler[ws].code, raises)
        IN  /\ handler[ws].status = "closing"
            /\ frames' = c.frames
            /\ handler' = [c.handler EXCEPT
                              ![ws].status = IF c.raised THEN "dropped" ELSE "refused",
                              ![ws].code = "none"]
            /\ UNCHANGED <<docVars, msgVars, now, ticks, authVars, tokVars, stuck, shut, events>>

\* manager.connect: websocket.accept() returns and the socket is
\* registered, the "connected" event on its way; or accept raises, the
\* socket stays unregistered and the outer except closes it with 1011
WsAccept(R) ==
    \E ws \in HubSockets, raises \in R :
        /\ handler[ws].status = "accept"
        /\ IF raises
           THEN /\ handler' = [handler EXCEPT ![ws] = abort(@)]
                /\ UNCHANGED active_connections
           ELSE /\ active_connections' = connect(active_connections, ws, handler[ws].group_id)
                /\ handler' = [handler EXCEPT ![ws].status = "welcome",
                                              ![ws].app = "connected"]
        /\ UNCHANGED <<docVars, store, last, lastBroadcast, now, ticks, authVars, tokVars,
                       frames, stuck, shut, events>>

\* websocket.close(1011) of the outer except completes or raises; either
\* way the call returns, and a registered socket stays registered
WsAbort ==
    \E ws \in HubSockets, raises \in BOOLEAN :
        LET c == close(handler, frames, ws, handler[ws].code, raises)
        IN  /\ handler[ws].status = "aborting"
            /\ ws \notin stuck
            /\ frames' = c.frames
            /\ handler' = [c.handler EXCEPT ![ws].status = "gone", ![ws].code = "none"]
            /\ UNCHANGED <<docVars, msgVars, now, ticks, authVars, tokVars, stuck, shut, events>>

\* send_personal_message of the "connected" event has returned (an
\* exception of the send is swallowed); broadcast_to_group takes its
\* snapshot for user_joined
WsWelcome(outcomes) ==
    \E ws \in HubSockets, outcome \in outcomes :
        LET s == send_json(handler, frames, ws, "connected", outcome)
            c == broadcast_begin(active_connections, s.handler, handler[ws].group_id, "user_joined")
        IN  /\ handler[ws].status = "welcome"
            /\ frames' = s.frames
            /\ handler' = [s.handler EXCEPT ![ws] =
                              IF c.attempted = {} THEN resume(@)
                              ELSE [@ EXCEPT !.status = "join", !.cast = c]]
            /\ UNCHANGED <<docVars, msgVars, now, ticks, authVars, tokVars, stuck, shut, events>>

\* The awaits at which a websocket_endpoint call is inside broadcast_to_group
Casting == {"join", "typing", "leave"}

\* One send of the broadcast of a websocket_endpoint call completes
WsSend(outcomes) ==
    \E ws \in HubSockets, outcome \in outcomes :
      \E to \in handler[ws].cast.pending :
        LET s == send_to_connection(handler[ws].cast, handler, frames, to, outcome)
        IN  /\ handler[ws].status \in Casting
            /\ to \notin stuck
            /\ frames' = s.frames
            /\ handler' = [s.handler EXCEPT ![ws].cast = s.cast]
            /\ UNCHANGED <<docVars, msgVars, now, ticks, authVars, tokVars, stuck, shut, events>>

\* asyncio.gather of the broadcast of a websocket_endpoint call has
\* returned: the sockets whose send raised are disconnected; after
\* user_left the call returns, otherwise it goes to receive_json
WsGather ==
    \E ws \in HubSockets :
        LET b == gathered(active_connections, handler[ws].cast)
        IN  /\ handler[ws].status \in Casting
            /\ handler[ws].cast.pending = {}
            /\ active_connections' = b.ac
            /\ handler' = [handler EXCEPT ![ws] =
                              IF @.status = "leave"
                              THEN [@ EXCEPT !.status = "gone", !.cast = NoCast]
                              ELSE resume(@)]
            /\ UNCHANGED <<docVars, store, last, lastBroadcast, now, ticks, authVars, tokVars,
                           frames, stuck, shut, events>>

\* GroupService.invalidate_group_cache is called
InvalidateGroupCache ==
    \E g \in Convs, o \in {"o1", "none"}, up \in BOOLEAN :
        /\ redis' = invalidate_group_cache(redis, cacheEnabled, g, o, up)
        /\ UNCHANGED <<docVars, msgVars, now, ticks, tokVars, hubVars, cacheEnabled, failOpen,
                       inflight, lastCheck, consecFail, decided, probes, checks, purge, calls,
                       asked>>

\* receive_json raises WebSocketDisconnect: the socket is unregistered and
\* broadcast_to_group takes its snapshot for user_left
WsDisconnect ==
    \E ws \in HubSockets :
        LET ac == disconnect(active_connections, ws, handler[ws].group_id)
            c == broadcast_begin(ac, handler, handler[ws].group_id, "user_left")
        IN  /\ handler[ws].status = "open"
            /\ active_connections' = ac
            /\ frames' = deliver(frames, {ws}, ClientDisconnect)
            /\ handler' = [handler EXCEPT ![ws] =
                              IF c.attempted = {}
                              THEN [@ EXCEPT !.status = "gone", !.cast = NoCast]
                              ELSE [@ EXCEPT !.status = "leave", !.cast = c]]
            /\ stuck' = stuck \ {ws}
            /\ UNCHANGED <<docVars, store, last, lastBroadcast, now, ticks, authVars, tokVars,
                           shut, events>>

\* receive_json returns a client frame (or raises on one that is not a
\* JSON object): the call is at the send of the pong, inside the
\* user_typing broadcast, at close(1011), or back at receive_json
WsReceive ==
    \E ws \in HubSockets, data \in ClientFrames :
        LET hw == handler[ws]
            c == broadcast_begin(active_connections, handler, hw.group_id, "user_typing")
        IN  /\ hw.status = "open"
            /\ ws \notin Closed(frames) \cup stuck
            /\ events < MaxEvents
            /\ events' = events + 1
            /\ handler' = [handler EXCEPT ![ws] =
                              IF data = "ping"
                              THEN IF hw.app = "connected" THEN [hw EXCEPT !.status = "pong"]
                                   ELSE resume(hw)
                              ELSE IF data = "typing"
                              THEN IF c.attempted = {} THEN resume(hw)
                                   ELSE [hw EXCEPT !.status = "typing", !.cast = c]
                              ELSE IF data = "malformed" THEN abort(hw)
                              ELSE resume(hw)]
            /\ UNCHANGED <<docVars, msgVars, now, ticks, authVars, tokVars, frames, stuck, shut>>

\* send_personal_message of the pong has returned (an exception of the
\* send is swallowed) and the call is back at receive_json
WsPong(outcomes) ==
    \E ws \in HubSockets, outcome \in outcomes :
        LET s == send_json(handler, frames, ws, "pong", outcome)
        IN  /\ handler[ws].status = "pong"
            /\ ws \notin stuck
            /\ frames' = s.frames
            /\ handler' = [s.handler EXCEPT ![ws] = resume(@)]
            /\ UNCHANGED <<docVars, msgVars, now, ticks, authVars, tokVars, stuck, shut, events>>

\* A message event of ChatService: its write has returned and
\* broadcast_to_group takes its snapshot
HubBroadcast(r) ==
    \E g \in Convs :
        LET c == broadcast_begin(active_connections, handler, g, "new_message")
        IN  /\ requests[r].status = "idle"
            /\ \A q \in Requests : q < r => requests[q].status # "idle"
            /\ events < MaxEvents
            /\ events' = events + 1
            /\ IF c.attempted = {}
               THEN /\ lastBroadcast' = gathered(active_connections, c).rec
                    /\ UNCHANGED requests
               ELSE /\ requests' = [requests EXCEPT ![r] =
                                       [NoRequest EXCEPT !.op = "create", !.status = "saved",
                                                         !.cast = c]]
                    /\ UNCHANGED lastBroadcast
            /\ UNCHANGED <<store, active_connections, last, now, ticks, authVars, tokVars,
                           frames, handler, stuck, shut>>

\* A client stops reading: from now on no send or close on its socket completes
Stall ==
    \E ws \in HubSockets :
        /\ handler[ws].status = "open"
        /\ ws \notin stuck
        /\ ws \notin Closed(frames)
        /\ Cardinality(stuck) < MaxStuck
        /\ stuck' = stuck \cup {ws}
        /\ UNCHANGED <<docVars, msgVars, now, ticks, authVars, tokVars, frames, handler, shut, events>>

ShutdownBegin ==
    /\ shut.phase = "idle"
    /\ shut' = shutdown_begin(active_connections, handler)
    /\ UNCHANGED <<docVars, msgVars, now, ticks, authVars, tokVars, frames, handler, stuck, events>>

\* close_connection, first await: the send of the server_shutdown event
\* completes and websocket.close(1001) is called, which marks the socket
\* disconnected; an exception of either ends the task
ShutdownSend(outcomes) ==
    \E ws \in DOMAIN shut.task, outcome \in outcomes :
        LET s == send_json(handler, frames, ws, "server_shutdown", outcome)
            c == close_begin(s.handler, ws)
        IN  /\ shut.phase = "running"
            /\ shut.task[ws] = "send"
            /\ ws \notin stuck
            /\ frames' = s.frames
            /\ handler' = IF s.raised THEN s.handler ELSE c.handler
            /\ shut' = [shut EXCEPT !.task[ws] = IF s.raised \/ c.raised THEN "failed"
                                                 ELSE "close"]
            /\ UNCHANGED <<docVars, msgVars, now, ticks, authVars, tokVars, stuck, events>>

\* close_connection, second await: close(1001) completes or raises
ShutdownClose ==
    \E ws \in DOMAIN shut.task, raises \in BOOLEAN :
        LET c == close(handler, frames, ws, WS_1001_GOING_AWAY, raises)
        IN  /\ shut.phase = "running"
            /\ shut.task[ws] = "close"
            /\ ws \notin stuck
            /\ frames' = c.frames
            /\ handler' = c.handler
            /\ shut' = [shut EXCEPT !.task[ws] = IF c.raised THEN "failed" ELSE "done"]
            /\ UNCHANGED <<docVars, msgVars, now, ticks, authVars, tokVars, stuck, events>>

\* asyncio.gather has returned: clear the hub
ShutdownEnd ==
    /\ shut.phase = "running"
    /\ \A ws \in DOMAIN shut.task : shut.task[ws] \in {"done", "failed"}
    /\ active_connections' = [g \in {} |-> {}]
    /\ shut' = [shut EXCEPT !.phase = "done"]
    /\ UNCHANGED <<docVars, store, last, lastBroadcast, now, ticks, authVars, tokVars,
                   frames, handler, stuck, events>>

\* The hub with the sockets of `conn` accepted for conversation c1 and in
\* their receive loops, each having received what `fr` says
HubServing(conn, fr) ==
    /\ frames = [ws \in HubSockets |-> IF ws \in conn THEN fr[ws] ELSE <<>>]
    /\ handler = [ws \in HubSockets |->
                     IF ws \in conn
                     THEN [NoHandler EXCEPT !.status = "open", !.app = "connected",
                                            !.group_id = "c1", !.user_id = "u1",
                                            !.org_id = "o1"]
                     ELSE NoHandler]
    /\ stuck = {}
    /\ shut = NoShutdown
    /\ events = 0

InitHub ==
    /\ MsgIdle
    /\ AuthIdle
    /\ TokIdle
    /\ DocIdle
    /\ HubIdle
    /\ now = 0 /\ ticks = 0
    /\ cacheEnabled = FALSE
    /\ failOpen = FALSE

\* The upgrades of the hub runs: the token validates and carries chat:read,
\* the AS issues a service token and knows the user as a member of the group
HubTokens == {FullToken}
HubTokenOk == {[kind |-> "token", expires_in |-> <<>>]}
HubGroupOk == {[kind |-> "ok", org_id |-> "o1", member_ids |-> {"u1"}]}

\* How the sends of the "connected" event and of the broadcasts of the
\* socket route end in the hub runs: they complete, or they find the
\* connection lost
LinkOutcomes == {"ok", "lost"}

\* The hub in service: sockets come and go, clients send frames, the
\* message engine broadcasts
NextHub ==
    \/ WsUpgrade(HubTokens)
    \/ WsLookup(HubTokenOk, HubGroupOk)
    \/ WsAccept({FALSE})
    \/ WsAbort
    \/ WsWelcome(LinkOutcomes)
    \/ WsSend(LinkOutcomes)
    \/ WsGather
    \/ WsDisconnect
    \/ WsReceive
    \/ WsPong(SendOutcomes)
    \/ \E r \in Requests : HubBroadcast(r)
    \/ \E r \in Requests : SendDoc(r, SendOutcomes)
    \/ \E r \in Requests : CastDoc(r)
    \/ Stall

SpecHub == InitHub /\ [][NextHub]_vars

\* The hub while sockets come and go and the application shuts down
NextShut ==
    \/ WsUpgrade(HubTokens)
    \/ WsLookup(HubTokenOk, HubGroupOk)
    \/ WsAccept({FALSE})
    \/ WsWelcome(LinkOutcomes)
    \/ WsSend(LinkOutcomes)
    \/ WsGather
    \/ WsDisconnect
    \/ Stall
    \/ ShutdownBegin
    \/ ShutdownSend(SendOutcomes)
    \/ ShutdownClose
    \/ ShutdownEnd

SpecShut == InitHub /\ [][NextShut]_vars

\* Socket upgrades up to the registration of the socket, over time, with or
\* without the Redis cache that get_group_details keeps the group details in
InitUpgrade ==
    /\ MsgIdle
    /\ AuthIdle
    /\ TokIdle
    /\ DocIdle
    /\ HubIdle
    /\ now = 0 /\ ticks = 0
    /\ cacheEnabled \in BOOLEAN
    /\ failOpen = FALSE

NextUpgrade ==
    \/ WsUpgrade(WsTokens)
    \/ WsLookup(HubTokenReplies, HubGroupReplies)
    \/ WsClose
    \/ WsAccept(BOOLEAN)
    \/ WsAbort
    \/ InvalidateGroupCache
    \/ Tick

SpecUpgrade == InitUpgrade /\ [][NextUpgrade]_vars

(***************************************************************************)
(* Claims about the hub                                                    *)
(***************************************************************************)
SetOf(ac, g) == IF g \in DOMAIN ac THEN ac[g] ELSE {}

\* C12: a broadcast puts the event exactly once on every socket that is in
\* the conversation's set when it starts and whose send does not raise, and
\* on no other socket; when the broadcast completes, exactly the sockets
\* whose send raised have left that set and every other set is unchanged.
C12_BroadcastDelivery ==
    \A g \in Convs, failing \in SUBSET HubSockets :
        LET b == hub_broadcast(active_connections, frames, stuck, g, "new_message", failing)
            before == SetOf(active_connections, g)
            raising == (before \ stuck) \cap (failing \cup Closed(frames))
        IN  /\ \A ws \in HubSockets :
                  b.frames[ws] = IF ws \in (before \ raising) \ stuck
                                 THEN Append(frames[ws], "new_message")
                                 ELSE frames[ws]
            /\ b.returns =>
                  /\ SetOf(b.ac, g) = before \ raising
                  /\ \A h \in Convs \ {g} :
                        SetOf(b.ac, h) = SetOf(active_connections, h)

\* a broadcast that reached one socket and removed another whose send raised
C12_Witness ==
    /\ lastBroadcast.type = "new_message"
    /\ lastBroadcast.delivered # {}
    /\ lastBroadcast.removed # {}
    /\ lastBroadcast.removed \cap Registered(active_connections) = {}

Count(seq, x) == Cardinality({i \in 1..Len(seq) : seq[i] = x})

\* exactly one server_shutdown event, and a close 1001 after it
NoticeThenClose(seq) ==
    /\ Count(seq, "server_shutdown") = 1
    /\ Count(seq, WS_1001_GOING_AWAY) = 1
    /\ \E i, j \in 1..Len(seq) :
          i < j /\ seq[i] = "server_shutdown" /\ seq[j] = WS_1001_GOING_AWAY

\* C13: shutdown_all handles every connection registered when it starts; a
\* connection whose send and close did not fail has received exactly one
\* server_shutdown event and then a close 1001, whatever happened on the
\* other connections; when shutdown_all returns the hub holds no connection.
C13_ShutdownNotifiesAndClears ==
    [][/\ ShutdownBegin =>
             /\ DOMAIN shut'.task = Registered(active_connections)
             /\ Registered(active_connections) = {} => shut'.phase = "done"
       /\ ShutdownEnd =>
             /\ \A ws \in DOMAIN shut.task :
                   shut.task[ws] = "done" => NoticeThenClose(frames[ws])
             /\ Registered(active_connections') = {}
             /\ DOMAIN active_connections' = {}]_vars

\* shutdown_all has returned; one connection was notified and closed, the
\* send or close of another one had failed
C13_Witness ==
    /\ shut.phase = "done"
    /\ \E a, b \in DOMAIN shut.task :
          /\ shut.task[a] = "done" /\ shut.task[b] = "failed"
          /\ NoticeThenClose(frames[a])

\* The scheduler runs every close_connection task whose I/O can complete and
\* resumes shutdown_all when asyncio.gather is done
SpecShutLive ==
    /\ SpecShut
    /\ WF_vars(ShutdownSend(SendOutcomes))
    /\ WF_vars(ShutdownClose)
    /\ WF_vars(ShutdownEnd)

\* C14 as stated: shutdown_all terminates even when the send or close of
\* one connection never completes.
C14_ShutdownTerminates == (shut.phase = "running") ~> (shut.phase = "done")

\* The Permission Resolver has allowed (org_id, user_id, chat:read) in the
\* check_permission call that returned last
ResolverAllowed(org_id, user_id) ==
    /\ lastCheck.outcome = "Allowed"
    /\ lastCheck.key = [org_id |-> org_id, user_id |-> user_id,
                        permission |-> <<"chat", "read">>]

\* C15 as stated: a socket is registered only after the token validated,
\* the token carries chat:read and the Permission Resolver allowed
\* (org_id, user_id, chat:read); no socket failing one of them is registered.
C15_RegisteredOnlyAfterChecks ==
    /\ \A tok \in WsTokens :
          upgrade_code(tok) = "ok" =>
              verify_websocket_oauth_token(tok) = "ok" /\ "chat:read" \in tok.scopes
    /\ \A ws \in Registered(active_connections) :
          /\ handler[ws].status \notin {"new", "lookup", "closing", "accept", "refused",
                                         "dropped"}
          /\ ResolverAllowed(handler[ws].org_id, handler[ws].user_id)

\* C16 as stated: every upgrade that fails a check (invalid token, missing
\* chat:read scope, lookup denied or failing with an error) closes the
\* socket with 1008 and puts no data frame on it.
C16_FailureClosesPolicyViolation ==
    \A ws \in HubSockets :
        handler[ws].status = "refused" => frames[ws] = <<WS_1008_POLICY_VIOLATION>>

(***************************************************************************)
(* Message engine, one await at a time (app/services/chat_service.py):     *)
(* update_message and delete_message each fetch the document with          *)
(* Message.get, check it, change the copy in memory and write it back with *)
(* message.save(). Other requests run between the two awaits.              *)
(***************************************************************************)
\* create_message for a member of the conversation
CreateDoc ==
    \E g \in DocConvs, o \in DocOrgs, u \in Users, c \in Contents, reply \in ASGroupReplies :
        /\ Len(store) <= MaxMsgs
        /\ Apply("create", create_message(store, active_connections, g, o, u, c, reply, {}, now))
        /\ UNCHANGED <<docVars, now, ticks, authVars, tokVars, hubVars>>

InitDoc ==
    /\ store \in BootStores(DocOrgs, DocConvs, Users, {"x"}, MaxMsgs)
    /\ active_connections = [g \in {} |-> {}]
    /\ lastBroadcast = NoBroadcast
    /\ last = [op |-> "none", status |-> "none", step |-> 0]
    /\ AuthIdle
    /\ TokIdle
    /\ DocIdle
    /\ HubIdle
    /\ now = 0 /\ ticks = 0
    /\ cacheEnabled = FALSE /\ failOpen = FALSE

NextDoc ==
    \/ CreateDoc
    \/ \E r \in Requests : UpdateBegin(r)
    \/ \E r \in Requests : DeleteBegin(r)
    \/ \E r \in Requests : SaveDoc(r)

SpecDoc == InitDoc /\ [][NextDoc]_vars

\* Requests whose delete has returned successfully
Deleted(reqs) == {r \in Requests : reqs[r].op = "delete" /\ reqs[r].status = "done"}

\* C17: once a delete has succeeded the message carries is_deleted = true and
\* the content the delete found, no list result contains it at any later
\* time, and a get by id still returns it.
C17_DeletedStaysHidden ==
    [][\A r \in Deleted(requests') :
         LET m == requests'[r].message_id
         IN  /\ Exists(store', m)
             /\ store'[m].is_deleted
             /\ requests[r].status # "done" =>
                    store'[m].content = requests[r].doc[1].content
             /\ \A g \in Convs, o \in Orgs, u \in Users, reply \in ASGroupReplies :
                    m \notin get_messages(store', g, o, u, reply).ids]_vars

\* C18: is_deleted never goes from true back to false, whatever updates and
\* deletes of the message are in flight.
C18_DeletedIsMonotonic ==
    [][\A m \in 1..Len(store) : store[m].is_deleted => store'[m].is_deleted]_vars

\* C19: no sequence of creates, updates and deletes changes the org_id, the
\* conversation id or the sender_id a message was stored with.
C19_IdentityImmutable ==
    [][\A m \in 1..Len(store) :
         /\ Exists(store', m)
         /\ store'[m].org_id = store[m].org_id
         /\ store'[m].group_id = store[m].group_id
         /\ store'[m].sender_id = store[m].sender_id]_vars

\* A stored message has been updated and deleted
C19_Witness ==
    /\ Deleted(requests) # {}
    /\ \E r \in Requests : requests[r].op = "update" /\ requests[r].status = "done"
    /\ \E m \in 1..Len(store) : store[m].is_deleted /\ store[m].content = "y"

(***************************************************************************)
(* Request bodies (app/schemas/message.py) and the routes that take them   *)
(* (app/routes/messages.py). A text is a sequence of runs [ch, n]: n       *)
(* copies of ch, where ch is a letter, a space, a tag or an ampersand.     *)
(***************************************************************************)
CONTENT_MIN_LENGTH == 1
CONTENT_MAX_LENGTH == 10000

Chars == {"a", " ", "<b>", "&"}
RunLengths == {1, CONTENT_MAX_LENGTH}
Runs == [ch : Chars, n : RunLengths]
RawContents == UNION {[1..k -> Runs] : k \in 0..MaxRuns}

\* Characters one copy of ch takes
Width(ch) == CASE ch = "<b>" -> 3
               [] ch = "&amp;" -> 5
               [] OTHER -> 1

\* Python len(text)
RECURSIVE len(_)
len(text) == IF text = <<>> THEN 0
             ELSE Head(text).n * Width(Head(text).ch) + len(Tail(text))

\* bleach.clean(v, tags=[], strip=True): tags are dropped, their text is kept,
\* a bare ampersand is escaped
bleach_clean(v) ==
    LET kept == SelectSeq(v, LAMBDA r : r.ch # "<b>")
    IN  [i \in 1..Len(kept) |-> IF kept[i].ch = "&" THEN [kept[i] EXCEPT !.ch = "&amp;"]
                                ELSE kept[i]]

RECURSIVE lstrip(_)
lstrip(text) == IF text # <<>> /\ Head(text).ch = " " THEN lstrip(Tail(text)) ELSE text

Reverse(text) == [i \in 1..Len(text) |-> text[Len(text) + 1 - i]]

\* str.strip()
strip(text) == Reverse(lstrip(Reverse(lstrip(text))))

\* MessageCreate.sanitize_content / MessageUpdate.sanitize_content
sanitize_content(v) == strip(bleach_clean(v))

Rejected == [valid |-> FALSE, content |-> <<>>]

\* MessageCreate(content=v): the Field bounds are checked on the text as sent,
\* the field validator runs after them and its result is not checked again
MessageCreate(v) ==
    IF len(v) < CONTENT_MIN_LENGTH \/ len(v) > CONTENT_MAX_LENGTH THEN Rejected
    ELSE [valid |-> TRUE, content |-> sanitize_content(v)]

\* MessageUpdate(content=v)
MessageUpdate(v) ==
    IF len(v) < CONTENT_MIN_LENGTH \/ len(v) > CONTENT_MAX_LENGTH THEN Rejected
    ELSE [valid |-> TRUE, content |-> sanitize_content(v)]

\* The names app/routes/messages.py imports from app.core.oauth_validator,
\* and the names that module defines
RouteImports == {"require_permission", "require_permission_hierarchy", "OAuthToken"}
OAuthValidatorNames == {"OAuthToken", "decode_token_string", "validate_oauth_token",
                        "require_scope", "require_any_scope", "require_all_scopes",
                        "get_optional_token"}

\* The parameters of ChatService.__init__ besides self
ChatServiceParams == {"group_service"}

\* get_chat_service, a dependency of every message route: it calls
\* ChatService() without arguments, which raises TypeError.  The
\* dependencies of a route are solved before its body is validated and
\* before the route function runs.
get_chat_service == IF ChatServiceParams \subseteq {} THEN "ok" ELSE "Error"

\* The keyword arguments the routes call the ChatService methods with
RouteKeywords ==
    [create |-> {"conversation_id", "org_id", "sender_id", "content", "user_token"},
     update |-> {"message_id", "conversation_id", "org_id", "user_id", "new_content",
                 "user_token"},
     delete |-> {"message_id", "conversation_id", "org_id", "user_id", "user_token",
                 "is_admin"}]

\* The parameters these methods declare
ServiceParams ==
    [create |-> {"group_id", "org_id", "sender_id", "content", "user_token"},
     update |-> {"message_id", "group_id", "org_id", "user_id", "new_content", "user_token"},
     delete |-> {"message_id", "group_id", "org_id", "user_id", "user_token", "is_admin"}]

\* A message route up to the call of its ChatService method: the module
\* must import, the dependencies must resolve, and the method must accept
\* the keywords of the call; otherwise the request ends in an error (500)
\* with nothing read, checked, stored or sent.
route(op) ==
    IF ~(RouteImports \subseteq OAuthValidatorNames) THEN "Error"
    ELSE IF get_chat_service # "ok" THEN "Error"
    ELSE IF ~(RouteKeywords[op] \subseteq ServiceParams[op]) THEN "Error"
    ELSE "ok"

\* POST /conversations/{conversation_id}/messages. Message(content=...) inside
\* ChatService.create_message enforces max_length and no minimum.
post_message(st, ac, group_id, org_id, sender_id, raw, reply, failing, t) ==
    LET body == MessageCreate(raw)
    IN  IF route("create") # "ok"
        THEN Outcome("Error", 0, st, ac, NoBroadcast)
        ELSE IF ~body.valid THEN Outcome("ValidationError", 0, st, ac, NoBroadcast)
        ELSE IF /\ verify_group_access(group_id, org_id, sender_id, reply) = "ok"
                /\ len(body.content) > CONTENT_MAX_LENGTH
             THEN Outcome("ValidationError", 0, st, ac, NoBroadcast)
        ELSE create_message(st, ac, group_id, org_id, sender_id, body.content, reply, failing, t)

\* Request bodies the routes are run with: empty, one character, one space,
\* one tag (both empty once sanitized), 10,000 ampersands (within the bounds
\* as sent, 50,000 characters once escaped), 10,000 tags (too long)
WriteBodies == {<<>>, <<[ch |-> "a", n |-> 1]>>, <<[ch |-> " ", n |-> 1]>>,
                <<[ch |-> "<b>", n |-> 1]>>,
                <<[ch |-> "&", n |-> CONTENT_MAX_LENGTH]>>,
                <<[ch |-> "<b>", n |-> CONTENT_MAX_LENGTH]>>}

PostMessage ==
    \E g \in DocConvs, o \in DocOrgs, u \in Users, raw \in WriteBodies,
       reply \in CallReplies, failing \in SUBSET Registered(active_connections) :
        /\ Len(store) <= MaxMsgs
        /\ Apply("create", post_message(store, active_connections, g, o, u, raw, reply, failing, now))
        /\ UNCHANGED <<docVars, now, ticks, authVars, tokVars, hubVars>>

\* the PUT route up to message.save(), or to the error that ends it: the
\* dependencies, the validation of the body, then update_message, which
\* fetches the document and runs its ladder
PutMessage(r) ==
    \E m \in MsgIds, g \in DocConvs, o \in DocOrgs, u \in Users, raw \in WriteBodies :
        LET body == MessageUpdate(raw)
            f == IF route("update") # "ok" THEN Fetched("Error", 0, <<>>)
                 ELSE IF body.valid THEN update_read(store, m, g, o, u)
                 ELSE Fetched("ValidationError", 0, <<>>)
        IN  /\ Begun(r, "update", f, m, body.content)
            /\ last' = [op |-> "update", status |-> IF f.status = "ok" THEN "pending" ELSE f.status,
                        step |-> f.step]

\* validate_oauth_token (the bearer dependency of the REST routes): jwt.decode
\* checks the signature, then an exp claim that is present; the type claim is
\* compared with "access"; OAuthToken.from_jwt_payload reads payload["sub"]
\* and payload["exp"], and takes payload.get("org_id"), None when absent
validate_oauth_token(tok) ==
    LET refused(status) == [status |-> status, user_id |-> "none", org_id |-> "none",
                            scopes |-> {}]
    IN  IF ~tok.sig THEN refused("Invalid")
        ELSE IF tok.exp = "past" THEN refused("Expired")
        ELSE IF tok.type # "access" THEN refused("BadType")
        ELSE IF tok.sub = "none" \/ tok.exp = "absent" THEN refused("KeyError")
        ELSE [status |-> "ok", user_id |-> tok.sub, org_id |-> tok.org_id,
              scopes |-> tok.scopes]

\* A request reaches a route: its bearer token is validated first
Authenticate ==
    \E tok \in WsTokens :
        /\ last' = [op |-> "auth", status |-> validate_oauth_token(tok).status, step |-> 0,
                    org_id |-> validate_oauth_token(tok).org_id]
        /\ UNCHANGED <<docVars, store, active_connections, lastBroadcast, now, ticks,
                       authVars, tokVars, hubVars>>

\* Scopes a route may require
RouteScopes == {"chat:read", "chat:write"}

\* require_scope(required_scope), the scope_checker dependency: it runs on
\* the token validate_oauth_token returned and raises 403 only when the
\* token has scopes and the required one is not among them
require_scope(tok, required_scope) ==
    LET v == validate_oauth_token(tok)
    IN  IF v.status # "ok" THEN v
        ELSE IF v.scopes # {} /\ required_scope \notin v.scopes
        THEN [v EXCEPT !.status = "Forbidden"]
        ELSE v

\* A request reaches a route guarded by require_scope
RequireScope ==
    \E tok \in WsTokens, required_scope \in RouteScopes :
        /\ last' = [op |-> "scope", status |-> require_scope(tok, required_scope).status,
                    step |-> 0, org_id |-> require_scope(tok, required_scope).org_id,
                    held |-> required_scope \in tok.scopes]
        /\ UNCHANGED <<docVars, store, active_connections, lastBroadcast, now, ticks,
                       authVars, tokVars, hubVars>>

\* One socket is listening on the conversation when the first request arrives
\* Contents the documents stored before this start have
PostContents == {<<[ch |-> "a", n |-> 1]>>}

InitPost ==
    /\ store \in BootStores(DocOrgs, DocConvs, {"u1"}, PostContents, MaxMsgs)
    /\ active_connections = connect([g \in {} |-> {}], "s1", "c1")
    /\ lastBroadcast = NoBroadcast
    /\ last = [op |-> "none", status |-> "none", step |-> 0]
    /\ AuthIdle
    /\ TokIdle
    /\ DocIdle
    /\ HubServing({"s1"}, [ws \in {"s1"} |-> <<"connected", "user_joined">>])
    /\ now = 0 /\ ticks = 0
    /\ cacheEnabled = FALSE /\ failOpen = FALSE

NextPost ==
    \/ PostMessage
    \/ \E r \in Requests : PutMessage(r)
    \/ Authenticate
    \/ RequireScope
    \/ Tick

SpecPost == InitPost /\ [][NextPost]_vars

Acceptable(text) == len(text) \in CONTENT_MIN_LENGTH..CONTENT_MAX_LENGTH

\* The AS knows the conversation as one of organization o with user u in it
Member(reply, o, u) == reply.kind = "ok" /\ reply.org_id = o /\ u \in reply.member_ids

\* C20: every stored content is non-empty and at most 10,000 characters long;
\* a create that succeeds stores exactly the sanitized input; a create by a
\* member of the conversation whose input is empty or too long after
\* sanitization fails with a validation error and neither stores nor
\* broadcasts anything.
C20_StoredContentSanitized ==
    /\ \A m \in 1..Len(store) : Acceptable(store[m].content)
    /\ \A raw \in RawContents, g \in DocConvs, o \in DocOrgs, u \in Users,
          reply \in ASGroupReplies, failing \in SUBSET Sockets :
           LET r == post_message(store, active_connections, g, o, u, raw, reply, failing, now)
               clean == sanitize_content(raw)
           IN  /\ r.status = "ok" =>
                      /\ Len(r.store) = Len(store) + 1
                      /\ r.store[Len(r.store)].content = clean
                      /\ Acceptable(clean)
               /\ (~Acceptable(clean) /\ Member(reply, o, u)) =>
                      /\ r.status = "ValidationError"
                      /\ r.store = store
                      /\ r.rec = NoBroadcast

(***************************************************************************)
(* Paged listing (ChatService.get_messages, GET .../messages)              *)
(***************************************************************************)
MAX_PAGE_SIZE == 100

\* Page sizes a client may ask for (Query(ge=1, le=100)): the small ones and the largest
PageSizes == 1..(MaxListed + 1) \cup {MAX_PAGE_SIZE}

\* {"$sort": {"created_at": -1}}: every order of S that is newest first; the
\* sort has no second key, so documents with equal created_at come in any
\* order, and not in the same order from one query to the next
SortOrders(st, S) ==
    {p \in [1..Cardinality(S) -> S] :
        /\ \A i, j \in DOMAIN p : i # j => p[i] # p[j]
        /\ \A i, j \in DOMAIN p : i < j => st[p[i]].created_at >= st[p[j]].created_at}

\* ChatService.get_messages for one page: $match, $sort (giving `sorted`),
\* $skip/$limit and $count, then Message(**msg) for each document of the page,
\* which validates the fields again
get_messages_page(st, group_id, org_id, user_id, page, page_size, reply, sorted) ==
    LET access == verify_group_access(group_id, org_id, user_id, reply)
        skip == (page - 1) * page_size
        upto == IF skip + page_size < Len(sorted) THEN skip + page_size ELSE Len(sorted)
        messages == SubSeq(sorted, skip + 1, upto)
    IN  IF access # "ok" THEN [status |-> access, messages |-> <<>>, total |-> 0]
        ELSE IF \E i \in DOMAIN messages : len(st[messages[i]].content) > CONTENT_MAX_LENGTH
             THEN [status |-> "ValidationError", messages |-> <<>>, total |-> 0]
        ELSE [status |-> "ok", messages |-> messages, total |-> Len(sorted)]

\* Bodies, caller and group lookup answer used while the listed store is built
ListBodies == {<<[ch |-> "a", n |-> 1]>>}
ListMember == [kind |-> "ok", org_id |-> "o1", member_ids |-> {"u1"}]

ListPost ==
    \E raw \in ListBodies :
        /\ Len(store) <= MaxListed
        /\ Apply("create", post_message(store, active_connections, "c1", "o1", "u1", raw,
                                        ListMember, {}, now))
        /\ UNCHANGED <<docVars, now, ticks, authVars, tokVars, hubVars>>

\* delete_message by the sender, up to message.save()
ListDelete(r) ==
    \E m \in 1..Len(store) :
        LET f == delete_read(store, m, "c1", "o1", "u1", FALSE)
        IN  /\ Begun(r, "delete", f, m, "none")
            /\ last' = [op |-> "delete", status |-> IF f.status = "ok" THEN "pending" ELSE f.status,
                        step |-> f.step]

ListPage ==
    \E page \in 1..(MaxListed + 1), page_size \in PageSizes,
       reply \in {ListMember, [ListMember EXCEPT !.member_ids = {}]} :
      \E sorted \in SortOrders(store, Matches(store, "c1", "o1")) :
        /\ last' = [op |-> "list", step |-> page,
                    status |-> get_messages_page(store, "c1", "o1", "u1", page, page_size,
                                                 reply, sorted).status]
        /\ UNCHANGED <<docVars, store, active_connections, lastBroadcast, now, ticks,
                       authVars, tokVars, hubVars>>

\* The conversation holds up to MaxListed messages of u1, all stored at the
\* same clock value
InitList ==
    /\ store \in BootStores({"o1"}, {"c1"}, {"u1"}, ListBodies, MaxListed)
    /\ active_connections = [g \in {} |-> {}]
    /\ lastBroadcast = NoBroadcast
    /\ last = [op |-> "none", status |-> "none", step |-> 0]
    /\ AuthIdle
    /\ TokIdle
    /\ DocIdle
    /\ HubIdle
    /\ now = 0 /\ ticks = 0
    /\ cacheEnabled = FALSE /\ failOpen = FALSE

NextList ==
    \/ ListPost
    \/ \E r \in Requests : ListDelete(r)
    \/ \E r \in Requests : SaveDoc(r)
    \/ ListPage
    \/ Tick

SpecList == InitList /\ [][NextList]_vars

Range(seq) == {seq[i] : i \in DOMAIN seq}

\* The pages 1..n of one listing, each with the order its own query produced
RECURSIVE Pages(_, _, _, _)
Pages(st, page_size, order, n) ==
    IF n = 0 THEN <<>>
    ELSE Pages(st, page_size, order, n - 1)
         \o get_messages_page(st, "c1", "o1", "u1", n, page_size, ListMember, order[n]).messages

\* C22: for every page size, the pages of a listing of an unchanging store
\* taken together hold each non-deleted message of the conversation exactly
\* once and nothing else, newest first, ties in created_at included, and the
\* total of every page is the number of those messages.
C22_PagesPartition ==
    \A page_size \in PageSizes :
        LET S == Matches(store, "c1", "o1")
            n == (Cardinality(S) + page_size - 1) \div page_size
        IN  \A order \in [1..n -> SortOrders(store, S)] :
                LET all == Pages(store, page_size, order, n)
                IN  /\ Len(all) = Cardinality(S)
                    /\ Range(all) = S
                    /\ \A i, j \in DOMAIN all :
                           i < j => store[all[i]].created_at >= store[all[j]].created_at
                    /\ \A p \in 1..n :
                           get_messages_page(store, "c1", "o1", "u1", p, page_size,
                                             ListMember, order[p]).total = Cardinality(S)

\* The statuses with which validate_oauth_token answers 401
Unauthorized == {"Invalid", "Expired", "BadType"}

\* C23: validation yields an identity exactly for a token with a valid
\* signature, an exp in the future, type access, a sub and an org_id; an
\* elapsed exp gives Expired and another type gives BadType; a token without
\* sub or org_id is refused with 401 and no identity lacks its org_id.
C23_TokenValidation ==
    /\ \A tok \in WsTokens :
           LET v == validate_oauth_token(tok)
               complete == tok.sub # "none" /\ tok.org_id # "none"
           IN  /\ v.status = "ok" <=> (tok.sig /\ tok.exp = "future" /\ tok.type = "access"
                                       /\ complete)
               /\ (tok.sig /\ tok.exp = "past") => v.status = "Expired"
               /\ (tok.sig /\ tok.exp = "future" /\ tok.type # "access") => v.status = "BadType"
               /\ (tok.sig /\ tok.exp = "future" /\ tok.type = "access" /\ ~complete)
                      => v.status \in Unauthorized
    /\ (last.op = "auth" /\ last.status = "ok") => last.org_id # "none"

\* The cached permission decisions: the keyspace without the breaker's key
Decisions(r) == Restrict(r, DOMAIN r \ {REDIS_KEY})

\* What C24 asks of a reply that is a failure, after the reply and at the
\* return of call c: the breaker's record_failure is applied to the state
\* read, the caller gets no decision of the AS, the cached decisions stay as
\* they are
HandledAsFailure(c, reply) ==
    /\ (RecordRead(c, TRUE) /\ checks[c].reply = reply) =>
          /\ checks'[c].pc = "recwrite"
          /\ checks'[c].data = record_failure(Breaker, now)
          /\ redis' = redis
    /\ (RecordWrite(c, TRUE) /\ checks[c].reply = reply) =>
          /\ redis' = set_state(redis, cacheEnabled, checks[c].data[1], now, TRUE)
          /\ checks'[c].pc = "idle"
          /\ lastCheck'.source # "auth_api"
          /\ lastCheck'.outcome \in {"Allowed", "Denied"} =>
                 lastCheck'.source = "fail_open_policy"
          /\ Decisions(redis') = Decisions(redis)
    /\ checks[c].reply = reply => checks[c].pc # "store"

\* C24 as stated: every reply with a status other than 200, every connection
\* failure and every timeout is recorded as a breaker failure, gives no
\* Allowed or Denied decision and writes nothing to the permission cache.
C24_Non200IsFailure ==
    [][\A c \in Checks, reply \in {"403", "403_nojson", "500", "timeout", "connect_error"} :
          HandledAsFailure(c, reply)]_vars

\* C24: every reply with a status other than 200 and 403, a 403 whose body
\* is not a JSON object, every connection failure and every timeout is
\* handed to the breaker as a failure, gives no decision of the AS and
\* writes nothing to the permission cache; a 403 with a JSON object as its
\* body is a Denied decision, a breaker success, and is cached like a 200
\* denial.
C24_FailureReplies ==
    [][\A c \in Checks :
          /\ \A reply \in {"403_nojson", "500", "timeout", "connect_error"} :
                HandledAsFailure(c, reply)
          /\ (RecordRead(c, TRUE) /\ checks[c].reply = "403") =>
                /\ checks'[c].pc \in {"recwrite", "store"}
                /\ checks'[c].pc = "recwrite" => checks'[c].data = record_success(Breaker)
                /\ consecFail' = 0
          /\ (CacheStore(c, TRUE) /\ checks[c].reply = "403") =>
                /\ lastCheck'.outcome = "Denied" /\ lastCheck'.source = "auth_api"
                /\ cacheEnabled =>
                       /\ redis'[build_key(checks[c].key)].value = "0"
                       /\ redis'[build_key(checks[c].key)].expires_at
                              = now + AUTH_CACHE_TTL_DENIED]_vars

\* a request failed at the AS while a decision of an earlier request is cached
C24_Witness ==
    /\ lastCheck.dialed /\ lastCheck.source \in {"fail_closed", "fail_open_policy"}
    /\ Decisions(redis) # <<>>
    /\ Breaker.failure_count >= 1

\* C25: without the shared cache the breaker still opens: after T consecutive
\* AS failures the next cache-miss check, made before the cool-down has
\* elapsed, finds the breaker open and is refused without a request to the AS.
C25_PerReplicaBreaker ==
    [][\A c \in Checks, up \in BOOLEAN :
          (/\ AttemptRead(c, up)
           /\ ~cacheEnabled
           /\ consecFail >= CIRCUIT_BREAKER_THRESHOLD
           /\ \A q \in Checks : checks[q].pc # "recwrite"
           /\ now = 0) =>
              /\ lastCheck'.seen = "open"
              /\ ~lastCheck'.dialed
              /\ inflight' = inflight]_vars

\* Permission names: the resource alone, or followed by one or two further segments
TtlActions == {"read", "create", "update", "send_message", "write", "delete",
               "manage_members", "admin", "export"}
TtlNames == {<<"chat">> \o rest : rest \in UNION {[1..n -> TtlActions] : n \in 0..2}}

\* C26 as stated: the TTL a decision is cached with follows the table: denied
\* 120 s; allowed and ending in :read 300 s; ending in :create, :update,
\* :send_message or :write 60 s; ending in :delete, :manage_members or :admin
\* 30 s; any other allowed name 60 s; names with several colons included.
C26_TtlBySuffix ==
    \A k \in PermKeys, permission \in TtlNames, allowed \in BOOLEAN :
        LET suffix == IF Len(permission) > 1 THEN permission[Len(permission)] ELSE "none"
            ttl == IF ~allowed THEN 120
                   ELSE IF suffix = "read" THEN 300
                   ELSE IF suffix \in {"delete", "manage_members", "admin"} THEN 30
                   ELSE 60
            key == build_key([k EXCEPT !.permission = permission])
            w == auth_cache_set(redis, cacheEnabled, AUTH_CACHE_ENABLED,
                                [k EXCEPT !.permission = permission], allowed, now, TRUE)
        IN  w.ok => w.redis[key].expires_at = now + ttl

\* C26: the TTL a decision is cached with follows the table, the action
\* being all that follows the first colon of the name: denied 120 s; allowed
\* with action read 300 s; create, update, send_message 60 s; delete,
\* manage_members, admin 30 s; any other allowed name, those with a further
\* colon in the action included, 60 s.
C26_TtlByAction ==
    \A k \in PermKeys, permission \in TtlNames, allowed \in BOOLEAN :
        LET action == IF Len(permission) = 2 THEN permission[2] ELSE "none"
            ttl == IF ~allowed THEN 120
                   ELSE IF action = "read" THEN 300
                   ELSE IF action \in {"delete", "manage_members", "admin"} THEN 30
                   ELSE 60
            key == build_key([k EXCEPT !.permission = permission])
            w == auth_cache_set(redis, cacheEnabled, AUTH_CACHE_ENABLED,
                                [k EXCEPT !.permission = permission], allowed, now, TRUE)
        IN  w.ok => w.redis[key].expires_at = now + ttl

\* an allowed chat:admin decision of the AS is in the cache with the admin TTL
C26_Witness ==
    /\ lastCheck.source = "auth_api" /\ lastCheck.outcome = "Allowed"
    /\ build_key(lastCheck.key) \in DOMAIN redis
    /\ redis[build_key(lastCheck.key)].expires_at = now + 30

(***************************************************************************)
(* Invalidation of a user's cached decisions                               *)
(* (AuthorizationService.invalidate_user_permissions).  Checks of several  *)
(* organisations and users arrive one at a time, each answered by the AS   *)
(* with a decision; pairs are invalidated while a check is under way.      *)
(***************************************************************************)
\* check_permission called with custom_cache_ttl: None (<<>>) or n seconds
CheckPermission(c, up) ==
    \E k \in InvKeys, custom_cache_ttl \in CustomTtls :
        /\ calls < MaxCalls
        /\ \A q \in Checks : checks[q].pc = "idle"
        /\ \A q \in InvKeys : inflight[q] = 0
        /\ CheckLookup(c, k, custom_cache_ttl, up)

\* the AS answers with a decision
CheckAnswered(c) ==
    \E k \in InvKeys, reply \in {"200_true", "200_false"} : Replied(c, k, reply)

\* AuthorizationService.invalidate_user_permissions
InvalidateUserPermissions(up) ==
    \E o \in InvOrgs, u \in InvUsers : InvalidateKeys(o, u, up)

InitInval ==
    /\ MsgIdle
    /\ AuthIdle
    /\ TokIdle
    /\ DocIdle
    /\ HubIdle
    /\ now = 0 /\ ticks = 0
    /\ cacheEnabled \in BOOLEAN
    /\ failOpen = FALSE

NextInval ==
    \/ \E c \in Checks, up \in BOOLEAN : CheckPermission(c, up)
    \/ \E c \in Checks, up \in BOOLEAN : AttemptRead(c, up)
    \/ \E c \in Checks : CheckAnswered(c)
    \/ \E c \in Checks, up \in BOOLEAN : RecordRead(c, up)
    \/ \E c \in Checks, up \in BOOLEAN : CacheStore(c, up)
    \/ \E up \in BOOLEAN : InvalidateUserPermissions(up)
    \/ \E up \in BOOLEAN : InvalidateDelete(up)

SpecInval == InitInval /\ [][NextInval]_vars

\* the keys of the decisions of one pair
PairKeys(org_id, user_id) ==
    {build_key(k) : k \in {x \in InvKeys : x.org_id = org_id /\ x.user_id = user_id}}

\* C27 as stated: when invalidate_user_permissions(org_id, user_id) returns
\* True, no cached decision of that pair is left, so a check of any
\* permission of that user started next is not answered from the cache, and
\* every other key of the cache, the decisions of the other pairs included,
\* is kept with its value and expiry.
C27_InvalidateUser ==
    [][(purge' # purge /\ purge'.pc = "idle" /\ purge'.returned = "True") =>
           LET o == purge'.org_id
               u == purge'.user_id
           IN  /\ \A k \in InvKeys :
                      (k.org_id = o /\ k.user_id = u) =>
                          /\ build_key(k) \notin DOMAIN redis'
                          /\ ~lookup(redis', cacheEnabled, AUTH_CACHE_ENABLED, k, now, TRUE).hit
               /\ \A key \in DOMAIN redis \ PairKeys(o, u) :
                      key \in DOMAIN redis' /\ redis'[key] = redis[key]]_vars

(***************************************************************************)
(* Claims about failing sends of the hub                                   *)
(***************************************************************************)
\* C28 as stated: when the single-target send to a connection raises (here
\* the pong that answers a ping), that connection has left its
\* conversation's set when the handler is done.
C28_SendErrorDisconnects ==
    \A g \in Convs :
        \A ws \in SetOf(active_connections, g) \ stuck :
            LET r == on_receive(active_connections, frames, stuck, ws, g, "ping", {ws})
            IN  ws \notin SetOf(r.ac, g)

\* The sockets of S got one more user_left event between fr and fr2
ToldUserLeft(fr, fr2, S) ==
    \A peer \in S : Count(fr2[peer], "user_left") = Count(fr[peer], "user_left") + 1

\* C29 as stated: every removal of a connection from a conversation's set,
\* by the client's disconnect or by a broadcast whose send raised, is
\* followed by a user_left event on the connections that remain in the set
\* (the event is modelled by its type; its count is the size of that set).
C29_RemovalAnnounced ==
    \A g \in Convs :
        /\ \A ws \in SetOf(active_connections, g) :
               LET d == on_disconnect(active_connections, frames, stuck, ws, g, {})
               IN  d.returns => ToldUserLeft(frames, d.frames, SetOf(d.ac, g))
        /\ \A failing \in SUBSET SetOf(active_connections, g) :
               LET b == hub_broadcast(active_connections, frames, stuck, g, "new_message", failing)
               IN  (b.returns /\ SetOf(b.ac, g) # SetOf(active_connections, g))
                       => ToldUserLeft(frames, b.frames, SetOf(b.ac, g))

(***************************************************************************)
(* Writes whose broadcast fails: the message engine with two sockets       *)
(* registered in conversation c1                                           *)
(***************************************************************************)
InitCast ==
    /\ store \in BootStores({"o1"}, Convs, {"u1"}, {"x"}, MaxMsgs)
    /\ active_connections = connect(connect([g \in {} |-> {}], "s1", "c1"), "s2", "c1")
    /\ lastBroadcast = NoBroadcast
    /\ last = [op |-> "none", status |-> "none", step |-> 0]
    /\ AuthIdle
    /\ TokIdle
    /\ DocIdle
    /\ HubServing({"s1", "s2"},
                  [ws \in {"s1", "s2"} |->
                      IF ws = "s1" THEN <<"connected", "user_joined", "user_joined">>
                      ELSE <<"connected", "user_joined">>])
    /\ now = 0 /\ ticks = 0
    /\ cacheEnabled = FALSE /\ failOpen = FALSE

NextCast ==
    \/ CreateMessage
    \/ \E r \in Requests : UpdateBegin(r)
    \/ \E r \in Requests : DeleteBegin(r)
    \/ \E r \in Requests : SaveDoc(r)
    \/ \E r \in Requests : SendDoc(r, SendOutcomes)
    \/ \E r \in Requests : CastDoc(r)

SpecCast == InitCast /\ [][NextCast]_vars

\* C30: whichever sends of its broadcast raise, a create, an update or a
\* delete returns what it returns when every send succeeds and leaves the
\* store it leaves then; a successful one has its write in the store; and
\* a request whose save() has returned ends with success whichever sends of
\* its broadcast raise.
C30_BroadcastFailureNotFatal ==
    /\ \A failing \in SUBSET HubSockets, g \in Convs, o \in Orgs, u \in Users :
          /\ \A c \in Contents, reply \in CallReplies :
                 LET r == create_message(store, active_connections, g, o, u, c, reply, failing, now)
                     q == create_message(store, active_connections, g, o, u, c, reply, {}, now)
                 IN  /\ r.status = q.status /\ r.store = q.store
                     /\ r.status = "ok" =>
                            /\ Len(r.store) = Len(store) + 1
                            /\ r.store[Len(r.store)] = Message(o, g, u, c, now)
          /\ \A m \in MsgIds, c \in Contents :
                 LET r == update_message(store, active_connections, m, g, o, u, c, failing, now)
                     q == update_message(store, active_connections, m, g, o, u, c, {}, now)
                 IN  /\ r.status = q.status /\ r.store = q.store
                     /\ r.status = "ok" => r.store[m].content = c
          /\ \A m \in MsgIds, a \in BOOLEAN :
                 LET r == delete_message(store, active_connections, m, g, o, u, a, failing, now)
                     q == delete_message(store, active_connections, m, g, o, u, a, {}, now)
                 IN  /\ r.status = q.status /\ r.store = q.store
                     /\ r.status = "ok" => r.store[m].is_deleted
    /\ \A r \in Requests, failing \in SUBSET HubSockets :
          requests[r].status = "saved" =>
              cast(active_connections, requests[r].op, requests[r].doc[1], failing).status = "ok"

\* an update returned its message although the send to s1 raised while the
\* one to s2 succeeded; the new content is stored
C30_Witness ==
    /\ last.op = "update" /\ last.status = "ok"
    /\ lastBroadcast.type = "message_updated"
    /\ lastBroadcast.removed = {"s1"}
    /\ lastBroadcast.delivered = {"s2"}
    /\ Len(store) = 1 /\ store[1].content = "y"

(***************************************************************************)
(* Claims about the hub map, scopes and the admin bypass                   *)
(***************************************************************************)
\* C31: the hub map has an entry for a conversation exactly when at least
\* one connection is registered for it: no conversation maps to the empty
\* set, after every connect, disconnect, broadcast and shutdown_all.
C31_NoEmptyEntry ==
    /\ \A g \in DOMAIN active_connections : active_connections[g] # {}
    /\ \A g \in Convs :
           g \in DOMAIN active_connections <=> SetOf(active_connections, g) # {}
    /\ \A g \in Convs, failing \in SUBSET HubSockets :
           LET b == hub_broadcast(active_connections, frames, stuck, g, "new_message", failing)
           IN  \A h \in DOMAIN b.ac : b.ac[h] # {}

\* the last socket of a conversation has disconnected and the entry of that
\* conversation is gone, while another conversation still has its entry
C31_Witness ==
    \E ws \in HubSockets :
        /\ handler[ws].status = "gone"
        /\ \E i \in 1..Len(frames[ws]) : frames[ws][i] = "connected"
        /\ \E i \in 1..Len(frames[ws]) : frames[ws][i] = ClientDisconnect
        /\ handler[ws].group_id \notin DOMAIN active_connections
        /\ DOMAIN active_connections # {}

(***************************************************************************)
(* Callers of CircuitBreaker.should_attempt after the cool-down.  The      *)
(* breaker has opened at time 0 on its T-th consecutive failure; requests  *)
(* that were admitted stay at the AS.                                      *)
(***************************************************************************)
OpenedAtZero == [state |-> "open", failure_count |-> CIRCUIT_BREAKER_THRESHOLD,
                 last_failure_time |-> <<0>>, half_open_attempts |-> 0]

InitRace ==
    /\ MsgIdle
    /\ TokIdle
    /\ DocIdle
    /\ HubIdle
    /\ now = 0 /\ ticks = 0
    /\ cacheEnabled = TRUE /\ failOpen = FALSE
    /\ redis = set_state([k \in {} |-> {}], TRUE, OpenedAtZero, 0, TRUE)
    /\ inflight = [k \in AllKeys |-> 0]
    /\ asked = [k \in AllKeys |-> <<>>]
    /\ lastCheck = NoCheck
    /\ consecFail = CIRCUIT_BREAKER_THRESHOLD
    /\ decided = [k \in AllKeys |-> NoDecision]
    /\ probes = 0
    /\ checks = [c \in Checks |-> NoChecking]
    /\ purge = NoPurge
    /\ calls = 0

\* a check arrives while other calls are between their steps
CheckArrives(c, up) ==
    \E k \in PermKeys : calls < MaxAdmitted /\ CheckLookup(c, k, <<>>, up)

\* every Redis command succeeds: what is admitted is admitted on the state read
NextRace ==
    \/ \E c \in Checks : CheckArrives(c, TRUE)
    \/ \E c \in Checks : AttemptRead(c, TRUE)
    \/ \E c \in Checks : AttemptWrite(c, TRUE)
    \/ Tick

SpecRace == InitRace /\ [][NextRace]_vars

\* C32 as stated: also when concurrent checks interleave the read and the
\* write of the breaker state, one half-open episode admits at most P + 1
\* calls to the AS.
C32_OneExtraProbe == probes <= CIRCUIT_BREAKER_HALF_OPEN_MAX_CALLS + 1

\* a check arrives when every earlier call has left should_attempt
CheckAlone(c, up) ==
    \E k \in PermKeys :
        /\ \A q \in Checks : checks[q].pc = "idle"
        /\ calls < MaxAdmitted
        /\ CheckLookup(c, k, <<>>, up)

NextProbe ==
    \/ \E c \in Checks : CheckAlone(c, TRUE)
    \/ \E c \in Checks : AttemptRead(c, TRUE)
    \/ \E c \in Checks : AttemptWrite(c, TRUE)
    \/ Tick

SpecProbe == InitRace /\ [][NextProbe]_vars

\* C7 as stated: in one half-open episode, the callers arriving one at a
\* time, at most P calls are admitted to the AS, the call that made the
\* transition included.
C7_AtMostPProbes == probes <= CIRCUIT_BREAKER_HALF_OPEN_MAX_CALLS

(***************************************************************************)
(* The delete route (app/routes/messages.py) with its auxiliary chat:admin *)
(* check (AuthAPIClient.check_permission_safe, app/services/               *)
(* auth_api_client.py)                                                     *)
(***************************************************************************)
\* AuthAPIClient.check_permission_safe, as the route reads it (`is_admin or
\* False`, then by truth value): raise_for_status raises on every status
\* that is not a success, every exception gives False, and a 200 gives the
\* `allowed` field of the body as it came
check_permission_safe(reply) ==
    IF reply \in {"403", "403_nojson", "500", "timeout", "connect_error"} THEN FALSE
    ELSE reply \in {"200_true", "200_str"}

\* DELETE /conversations/{conversation_id}/messages/{message_id}, for a
\* token validate_oauth_token lets through: the dependencies, then the
\* chat:admin check and delete_message
delete_route(st, ac, message_id, conversation_id, org_id, user_id, reply, failing, t) ==
    LET is_admin == check_permission_safe(reply)
    IN  IF route("delete") # "ok"
        THEN Outcome("Error", 0, st, ac, NoBroadcast)
        ELSE delete_message(st, ac, message_id, conversation_id, org_id, user_id,
                            is_admin, failing, t)

\* the delete route up to message.save(), or to the error that ends it:
\* the dependencies, the chat:admin check, Message.get and the ladder
DeleteRoute(r) ==
    \E m \in MsgIds, g \in Convs, o \in Orgs, u \in Users, reply \in ASReplies :
        LET f == IF route("delete") # "ok" THEN Fetched("Error", 0, <<>>)
                 ELSE delete_read(store, m, g, o, u, check_permission_safe(reply))
        IN  /\ Begun(r, "delete", f, m, "none")
            /\ last' = [op |-> "delete", status |-> IF f.status = "ok" THEN "pending" ELSE f.status,
                        step |-> f.step, reply |-> reply]

InitRoute ==
    /\ store \in BootStores(Orgs, Convs, {"u1"}, {"x"}, MaxMsgs)
    /\ active_connections = [g \in {} |-> {}]
    /\ lastBroadcast = NoBroadcast
    /\ last = [op |-> "none", status |-> "none", step |-> 0]
    /\ AuthIdle
    /\ TokIdle
    /\ DocIdle
    /\ HubIdle
    /\ now = 0 /\ ticks = 0
    /\ cacheEnabled = FALSE
    /\ failOpen \in BOOLEAN

NextRoute ==
    \/ CreateMessage
    \/ \E r \in Requests : UpdateBegin(r)
    \/ \E r \in Requests : DeleteRoute(r)
    \/ \E r \in Requests : SaveDoc(r)

SpecRoute == InitRoute /\ [][NextRoute]_vars

\* C33: the delete route passes is_admin = TRUE only when the AS answered
\* the chat:admin check with 200 and allowed = true; with any other reply
\* (denial, error status, time-out, connection failure), under either value
\* of AUTH_FAIL_OPEN, a delete by a user other than the sender that carries
\* the message's conversation and organization is Forbidden and leaves the
\* store as it was.
C33_AdminBypassNeedsAllowed ==
    /\ \A reply \in ASReplies : check_permission_safe(reply) <=> reply = "200_true"
    /\ \A m \in StoredIds : \A u \in Users \ {store[m].sender_id} :
          \A reply \in ASReplies \ {"200_true"}, failing \in SUBSET Sockets :
              LET r == delete_route(store, active_connections, m, store[m].group_id,
                                    store[m].org_id, u, reply, failing, now)
              IN  r.status = "Forbidden" /\ r.store = store /\ r.rec = NoBroadcast

\* C34 as stated: require_scope(s) answers 403 to every validated token
\* whose scope set does not contain s, the empty scope set included.
C34_ScopeRequired ==
    /\ \A tok \in WsTokens, required_scope \in RouteScopes :
        (validate_oauth_token(tok).status = "ok" /\ required_scope \notin tok.scopes)
            => require_scope(tok, required_scope).status = "Forbidden"
    /\ (last.op = "scope" /\ last.status = "ok") => last.held

\* C35 as stated: a check called with custom_cache_ttl = n caches the
\* decision it obtained from the AS with a time to live of n seconds, not
\* with the tiered one.
C35_CustomTtlUsed ==
    \A c \in Checks :
        (checks[c].pc = "store" /\ asked[checks[c].key] = <<CustomTtl>>) =>
            LET k == checks[c].key
                w == auth_cache_set(redis, cacheEnabled, AUTH_CACHE_ENABLED, k,
                                    api_result(checks[c].reply).allowed, now, TRUE)
            IN  w.ok => w.redis[build_key(k)].expires_at = now + CustomTtl

\* C36 as stated: the breaker leaves open or half-open for closed only
\* through a successful AS call that found it half-open, and a step in
\* which only time passes changes neither the state of the breaker nor its
\* failure counter.
C36_ClosesOnlyOnSuccess ==
    [][/\ (Breaker.state \in {"open", "half_open"} /\ BreakerAfter.state = "closed") =>
              \E c \in Checks :
                  /\ RecordWrite(c, TRUE)
                  /\ api_result(checks[c].reply).recorded = "success"
                  /\ checks[c].seen = "half_open"
       /\ Tick =>
              /\ BreakerAfter.state = Breaker.state
              /\ BreakerAfter.failure_count = Breaker.failure_count]_vars

\* C37 as stated: once an invalidation of the user has completed, a check
\* for that user is not answered from the cache with a decision the AS
\* issued before that invalidation, also when the check that wrote the
\* decision was in flight while the invalidation ran.
C37_NoStaleDecision ==
    \A k \in InvKeys :
        lookup(redis, cacheEnabled, AUTH_CACHE_ENABLED, k, now, TRUE).hit => ~decided[k].stale

(***************************************************************************)
(* The write routes and the calls of the message engine below them, with   *)
(* a store whose save() may raise and one socket listening on c1; the      *)
(* documents of the store were written before the clock value of the run   *)
(***************************************************************************)
InitWrite ==
    /\ store \in BootStores({"o1"}, Convs, {"u1"}, {"x"}, MaxMsgs)
    /\ active_connections = connect([g \in {} |-> {}], "s1", "c1")
    /\ lastBroadcast = NoBroadcast
    /\ last = [op |-> "none", status |-> "none", step |-> 0]
    /\ AuthIdle
    /\ TokIdle
    /\ DocIdle
    /\ HubServing({"s1"}, [ws \in {"s1"} |-> <<"connected", "user_joined">>])
    /\ now = 1 /\ ticks = 0
    /\ cacheEnabled = FALSE /\ failOpen = FALSE

NextWrite ==
    \/ PostMessage
    \/ \E r \in Requests : PutMessage(r)
    \/ \E r \in Requests : DeleteRoute(r)
    \/ CreateMessage
    \/ \E r \in Requests : UpdateBegin(r)
    \/ \E r \in Requests : DeleteBegin(r)
    \/ \E r \in Requests : SaveDoc(r)
    \/ \E r \in Requests : SendDoc(r, SendOutcomes)
    \/ \E r \in Requests : CastDoc(r)

SpecWrite == InitWrite /\ [][NextWrite]_vars

\* How a call that raised ends
ErrorStatuses == {"NotFound", "Forbidden", "ValidationError", "Error"}

\* What a step leaves alone when it neither stores nor sends anything
Untouched ==
    /\ store' = store
    /\ frames' = frames
    /\ active_connections' = active_connections
    /\ lastBroadcast' = lastBroadcast

\* A send of a broadcast under way completes
Sending == \E r \in Requests : requests'[r].cast # requests[r].cast /\ requests[r].status = "saved"

\* C38: a step in which a call ends in NotFound, Forbidden, a validation
\* error or a persistence error changes no stored message, sends no event
\* and leaves the hub as it was, and the call never sends one later; the
\* step that takes a call to its save() changes its own copy only; an event
\* goes out only in a step of a call whose save() has returned, after the
\* step in which that save() put the changed document in the store, and it
\* is the event of that call, sent to a socket of its snapshot.
C38_BroadcastAfterWrite ==
    [][/\ (last'.status \in ErrorStatuses /\ ~Sending) => Untouched
       /\ \A r \in Requests :
              LET q == requests[r]
                  q2 == requests'[r]
              IN  /\ q.status = "idle" /\ q2.status # "idle" =>
                         /\ q2.status = "read"
                         /\ Exists(store, q2.message_id)
                         /\ q2.doc[1] = changed(q2.op, store[q2.message_id],
                                                q2.new_content, now)
                         /\ Untouched
                  /\ q.status = "read" =>
                         q2.status \in {"read", "saved", "done", "failed"}
                  /\ q.status = "read" /\ q2.status = "failed" =>
                         last'.status = "Error" /\ Untouched
                  /\ q.status = "read" /\ q2.status \in {"saved", "done"} =>
                         /\ Exists(store', q.message_id)
                         /\ store'[q.message_id] = q.doc[1]
                         /\ frames' = frames
                         /\ active_connections' = active_connections
                         /\ q2.status = "done" <=>
                                SetOf(active_connections, q.doc[1].group_id) = {}
                  /\ q2.status = "saved" => q.status \in {"read", "saved"}
                  /\ q.status = "failed" => q2.status = "failed" /\ q2.cast = NoCast
       /\ frames' # frames =>
              /\ store' = store
              /\ \E r \in Requests : \E ws \in requests[r].cast.pending :
                     /\ requests[r].status = "saved"
                     /\ requests'[r].status = "saved"
                     /\ requests'[r].cast.pending = requests[r].cast.pending \ {ws}
                     /\ frames' = deliver(frames, {ws}, EventOf(requests[r].op))
       /\ (lastBroadcast' # lastBroadcast \/ active_connections' # active_connections) =>
              /\ last'.status = "ok"
              /\ \E r \in Requests :
                     /\ requests[r].status \in {"read", "saved"}
                     /\ requests'[r].status = "done"
                     /\ requests[r].status = "read" =>
                            store'[requests[r].message_id] = requests[r].doc[1]
                     /\ lastBroadcast'.type = EventOf(requests[r].op)
                     /\ lastBroadcast'.group_id = requests[r].doc[1].group_id]_vars

\* save() raised in an update of a stored message while the delete of the
\* same message, whose save() had returned, was sending message_deleted:
\* the update ended in the error and sent nothing, the listening socket
\* got the event of the delete only, and the message is stored as the
\* delete wrote it
C38_Witness ==
    /\ \E r \in Requests : requests[r].op = "update" /\ requests[r].status = "failed"
    /\ \E r \in Requests : requests[r].op = "delete" /\ requests[r].status = "done"
    /\ lastBroadcast.type = "message_deleted"
    /\ lastBroadcast.delivered = {"s1"}
    /\ frames["s1"] = <<"connected", "user_joined", "message_deleted">>
    /\ Len(store) = 1 /\ store[1].content = "x" /\ store[1].is_deleted
    /\ store[1].updated_at > store[1].created_at

(***************************************************************************)
(* A connection registered while shutdown_all is running                   *)
(***************************************************************************)
\* C39: when shutdown_all returns, every connection that registered after
\* its snapshot was taken and is still connected has either received the
\* server_shutdown event and a close 1001 or is still in the hub.
C39_LateConnectionKept ==
    [][ShutdownEnd =>
          \A ws \in Registered(active_connections) \ DOMAIN shut.task :
              ws \notin Closed(frames) \cup ClientLeft(frames) =>
                  \/ ws \in Registered(active_connections')
                  \/ NoticeThenClose(frames[ws])]_vars

(***************************************************************************)
(* Updates of a soft-deleted message                                       *)
(***************************************************************************)
\* C40: once a message is soft-deleted no step changes its stored content,
\* and no update gets past its ladder with a document that is deleted (so
\* none writes it or broadcasts message_updated for it).
C40_DeletedNotUpdated ==
    [][/\ \A m \in 1..Len(store) :
            store[m].is_deleted => store'[m].content = store[m].content
       /\ \A r \in Requests :
            (UpdateBegin(r) /\ requests'[r].status = "read") =>
                ~requests'[r].doc[1].is_deleted]_vars

====
